---- MODULE Spec2Model ----
(***************************************************************************)
(* Model of the GitHub ingestion path of the self-reflection tool:         *)
(* fetchMergedPRs, enrichPR, extractRepo and fetchWithRateLimit.           *)
(*                                                                         *)
(* One call of fetchMergedPRs is a state machine.  Every action is one     *)
(* synchronous run of JavaScript between two awaits: the delivery of an    *)
(* HTTP response or of a timer, followed by everything the continuation    *)
(* does until it awaits again.                                             *)
(***************************************************************************)
EXTENDS Integers, Sequences, FiniteSets, TLC

(***************************************************************************)
(* Program constants.                                                      *)
(***************************************************************************)
PER_PAGE == 100

batchSize == 5

\* the upper limit of a wait that is slept through, in ms (120_000)
TooLongMs == 120000

\* the safety margin added to the reset time, in ms
SafetyMarginMs == 1000

(***************************************************************************)
(* Bounds of the model.                                                    *)
(***************************************************************************)
\* the longest first page served in Spec (a short page: MaxHits < PER_PAGE)
MaxHits == 7

\* the largest total_count the search endpoint reports
MaxTotal == 300

(***************************************************************************)
(* Optional values: null / undefined is None, a present value v is <<v>>.  *)
(***************************************************************************)
None == <<>>

Some(v) == <<v>>

IsSome(o) == Len(o) = 1

(***************************************************************************)
(* Strings the code inspects are sequences of characters.                  *)
(***************************************************************************)
Digits == <<"0", "1", "2", "3", "4", "5", "6", "7", "8", "9">>

IsDigit(c) == \E d \in 1..10 : Digits[d] = c

DigitVal(c) == (CHOOSE d \in 1..10 : Digits[d] = c) - 1

RECURSIVE SkipSpaces(_)
SkipSpaces(s) ==
    IF s # <<>> /\ Head(s) = " " THEN SkipSpaces(Tail(s)) ELSE s

RECURSIVE DigitPrefixLen(_)
DigitPrefixLen(s) ==
    IF s # <<>> /\ IsDigit(Head(s)) THEN 1 + DigitPrefixLen(Tail(s)) ELSE 0

RECURSIVE DigitsValue(_, _)
DigitsValue(s, n) ==
    IF n = 0 THEN 0 ELSE DigitsValue(s, n - 1) * 10 + DigitVal(s[n])

\* parseInt(s, 10): leading blanks, an optional sign, then the longest run
\* of digits; the rest is ignored.  No digit at all gives NaN (None).
parseInt(s) ==
    LET t    == SkipSpaces(s)
        sgn  == t # <<>> /\ Head(t) \in {"-", "+"}
        u    == IF sgn THEN Tail(t) ELSE t
        n    == DigitPrefixLen(u)
    IN  IF n = 0 THEN None
        ELSE Some((IF sgn /\ Head(t) = "-" THEN -1 ELSE 1) * DigitsValue(u, n))

\* Math.ceil(ms / 1000)
CeilSec(ms) == -((-ms) \div 1000)

Marker == <<"r", "e", "p", "o", "s", "/">>

Unknown == <<"u", "n", "k", "n", "o", "w", "n">>

\* /repos\/(.+)$/ matches at k: the marker stands at k and at least one
\* character follows it
MatchesAt(s, k) ==
    /\ k + Len(Marker) <= Len(s)
    /\ SubSeq(s, k, k + Len(Marker) - 1) = Marker

\* extractRepo(repoApiUrl): what follows the leftmost "repos/", or 'unknown'
extractRepo(repoApiUrl) ==
    IF ~IsSome(repoApiUrl) THEN Unknown
    ELSE LET s  == repoApiUrl[1]
             ks == {k \in 1..Len(s) : MatchesAt(s, k)}
         IN  IF ks = {} THEN Unknown
             ELSE LET k == CHOOSE j \in ks : \A m \in ks : j <= m
                  IN  SubSeq(s, k + Len(Marker), Len(s))

(***************************************************************************)
(* HTTP.  A response is [status, remaining, reset, body]; the two headers  *)
(* are optional strings.  A fetch() that rejects (network error) is        *)
(* written as the pseudo response of status 0.                             *)
(***************************************************************************)
EmptyBody ==
    [text |-> "", total_count |-> 0, items |-> <<>>,
     additions |-> None, deletions |-> None, merged_at |-> None]

Response(status, remaining, reset, body) ==
    [status |-> status, remaining |-> remaining, reset |-> reset, body |-> body]

NetworkError == Response(0, None, None, [EmptyBody EXCEPT !.text = "network"])

FetchRejects(r) == r.status = 0

\* res.ok
OkMut(r) == r.status >= 200 /\ r.status <= 499
Ok(r) == r.status >= 200 /\ r.status <= 299

NoError == [kind |-> "none", status |-> 0, text |-> "", waitSec |-> None]

NetworkFailure == [NoError EXCEPT !.kind = "network"]

\* new Error(`Rate limited. Resets in ${waitSec}s ...`); waitSec is NaN (None)
\* when the reset header holds no number
RateLimitError(waitMs) ==
    [NoError EXCEPT !.kind = "ratelimit",
                    !.waitSec = IF IsSome(waitMs) THEN Some(CeilSec(waitMs[1])) ELSE None]

\* new Error(`GitHub search failed (${res.status}): ${body}`)
SearchError(r) ==
    [NoError EXCEPT !.kind = "search", !.status = r.status, !.text = r.body.text]

(***************************************************************************)
(* fetchWithRateLimit.  A call is                                          *)
(*   st      "idle", "inflight" (a fetch awaits its response), "sleeping", *)
(*           "returned" or "thrown"                                        *)
(*   nreq    the number of fetch() calls made so far                       *)
(*   sleeps  the durations of the sleeps made so far                       *)
(*   first   the first response, now the value Date.now() gave            *)
(*   result  the response returned, error the error thrown                 *)
(***************************************************************************)
IdleCall ==
    [st |-> "idle", url |-> [kind |-> "none", n |-> 0], nreq |-> 0,
     sleeps |-> <<>>, first |-> None, now |-> 0, result |-> None,
     error |-> NoError]

\* const res = await fetch(url, options)
NewCall(url) == [IdleCall EXCEPT !.st = "inflight", !.url = url, !.nreq = 1]

\* remaining === '0' && resetAt
IsRateLimitedMut(r) == r.status = 403 /\ IsSome(r.reset) /\ r.reset[1] # <<>>
IsRateLimited(r) ==
    /\ r.status = 403
    /\ r.remaining = Some(<<"0">>)
    /\ IsSome(r.reset) /\ r.reset[1] # <<>>

\* (parseInt(resetAt, 10) * 1000) - Date.now() + 1000; NaN is None
WaitMs(r, now) ==
    LET secs == parseInt(r.reset[1])
    IN  IF IsSome(secs) THEN Some(secs[1] * 1000 - now + SafetyMarginMs) ELSE None

\* waitMs > 0 && waitMs < 120_000 (false for NaN)
CanWaitMut(waitMs) == IsSome(waitMs) /\ waitMs[1] > 0 /\ waitMs[1] <= TooLongMs
CanWait(waitMs) == IsSome(waitMs) /\ waitMs[1] > 0 /\ waitMs[1] < TooLongMs

\* what the call does with the response of its second fetch:
\* `return fetch(url, options)` hands it on as it is
OnRetryResponseMut(c, r) ==
    IF IsRateLimited(r) /\ CanWait(WaitMs(r, c.now))
    THEN [c EXCEPT !.st = "sleeping", !.sleeps = Append(@, WaitMs(r, c.now)[1])]
    ELSE [c EXCEPT !.st = "returned", !.result = Some(r)]
OnRetryResponse(c, r) == [c EXCEPT !.st = "returned", !.result = Some(r)]

\* the continuation of fetchWithRateLimit when the awaited fetch settles with
\* r while Date.now() is now
OnResponse(c, r, now) ==
    IF FetchRejects(r)
    THEN [c EXCEPT !.st = "thrown", !.error = NetworkFailure,
                   !.first = IF c.nreq = 1 THEN Some(r) ELSE @]
    ELSE IF c.nreq > 1 THEN OnRetryResponse(c, r)
    ELSE IF IsRateLimited(r)
    THEN LET waitMs == WaitMs(r, now)
         IN  IF CanWait(waitMs)
             THEN [c EXCEPT !.st = "sleeping", !.first = Some(r), !.now = now,
                            !.sleeps = Append(@, waitMs[1])]
             ELSE [c EXCEPT !.st = "thrown", !.first = Some(r), !.now = now,
                            !.error = RateLimitError(waitMs)]
    ELSE [c EXCEPT !.st = "returned", !.first = Some(r), !.result = Some(r)]

\* the sleep is over: return fetch(url, options)
OnWake(c) == [c EXCEPT !.st = "inflight", !.nreq = @ + 1]

(***************************************************************************)
(* The data the API serves.  The n-th pull request of the result set is    *)
(* Hit(n); its shape varies with n so that every branch of enrichPR and    *)
(* extractRepo is taken: a missing repository_url, one without the marker, *)
(* one with the marker twice, a missing or empty body, a missing           *)
(* merged_at, and a hit without a pull_request link.                       *)
(***************************************************************************)
RepoUrl(n) ==
    CASE n % 5 = 0 -> None
      [] n % 5 = 1 -> Some(<<"h", "/", "r", "e", "p", "o", "s", "/", "o", "/", "a">>)
      [] n % 5 = 2 -> Some(<<"r", "e", "p", "o", "s", "/", "r", "e", "p", "o", "s", "/", "b">>)
      [] n % 5 = 3 -> Some(<<"h", "/", "r", "e", "p", "o", "s", "/">>)
      [] OTHER     -> Some(<<"h", "/", "r", "e", "p", "o", "s", "/", "c">>)

Hit(n) ==
    [title          |-> <<"title", n>>,
     html_url       |-> <<"html", n>>,
     repository_url |-> RepoUrl(n),
     pull_request   |-> IF n % 7 = 0 THEN None
                        ELSE Some([url |-> n,
                                   merged_at |-> IF n % 4 = 0 THEN None
                                                 ELSE Some(100 + n)]),
     body           |-> CASE n % 3 = 0 -> None
                          [] n % 3 = 1 -> Some("text")
                          [] OTHER     -> Some("")]

\* the items of page p when the endpoint serves len of them; shift is the
\* number of items that have entered the top of the result set since page 1
\* was served, each of which moves the others one place down
PageItems(p, len, shift) ==
    [k \in 1..len |-> Hit((p - 1) * PER_PAGE + k - (IF p > 1 THEN shift ELSE 0))]

SearchPage(p, len, total, shift) ==
    Response(200, None, None,
             [EmptyBody EXCEPT !.total_count = total,
                               !.items = PageItems(p, len, shift)])

ErrorBody(t) == [EmptyBody EXCEPT !.text = t]

RemainingHeaders == {None, Some(<<"0">>), Some(<<"1">>), Some(<<"0", "0">>)}

ResetHeaders ==
    {None, Some(<<>>), Some(<<"x">>), Some(<<"0">>), Some(<<"1">>),
     Some(<<"5">>), Some(<<"5", "s">>), Some(<<"1", "2", "0">>),
     Some(<<"2", "0", "0">>)}

\* the values Date.now() gives, in ms
Clock == {1000, 1001, 1999}

Forbidden ==
    {Response(403, rem, rst, ErrorBody("forbidden")) :
        rem \in RemainingHeaders, rst \in ResetHeaders}

OtherFailures ==
    {Response(429, Some(<<"0">>), Some(<<"5">>), ErrorBody("slow down")),
     Response(500, None, None, ErrorBody("server error")),
     Response(404, Some(<<"0">>), None, ErrorBody("not found")),
     NetworkError}

\* the total_count values of SpecPaging
TotalCounts == {0, 250, MaxTotal}

\* the total_count values of Spec
ShortTotals == {0, MaxTotal}

\* page lengths of Spec: the result set is small
ShortLens == 0..MaxHits

\* page lengths of SpecPaging: two short pages and the full page
PagedLens == {40, 50, PER_PAGE}

\* the result set stays as it is between the page requests of Spec; in
\* SpecPaging a short page may also come after one new item has entered
Steady == {}
ShiftedLens == {40}

\* shifted: the page lengths that are also served one place down
SearchOutcomes(p, lens, totals, shifted) ==
    {SearchPage(p, len, total, 0) : len \in lens, total \in totals}
        \cup {SearchPage(p, len, total, 1) : len \in shifted, total \in totals}
        \cup Forbidden \cup OtherFailures

\* GET <item.pull_request.url>
DetailFull(n) ==
    Response(200, None, None,
             [EmptyBody EXCEPT !.additions = Some(10 + n), !.deletions = Some(n),
                               !.merged_at = Some(200 + n)])

\* a 2xx answer without the three fields
DetailSparse == Response(200, None, None, EmptyBody)

DetailClock == {1000}

DetailOutcomes(n) ==
    {DetailFull(n), DetailSparse,
     Response(404, None, None, ErrorBody("not found")),
     Response(403, Some(<<"0">>), Some(<<"5">>), ErrorBody("forbidden")),
     Response(403, Some(<<"0">>), Some(<<"2", "0", "0">>), ErrorBody("forbidden")),
     NetworkError}

HealthyOutcomes(n) == {DetailFull(n)}

(***************************************************************************)
(* State of one call of fetchMergedPRs.                                    *)
(***************************************************************************)
VARIABLES
    pc,            \* "start", "awaitSearch", "awaitBatch", "done", "rejected"
    page,          \* let page
    allItems,      \* let allItems
    totalCount,    \* let totalCount
    search,        \* the fetchWithRateLimit call of the search loop
    enriched,      \* const enriched
    i,             \* the index of the for loop
    batch,         \* the enrichPR calls of the running Promise.all
    progress,      \* the arguments of the onProgress calls made so far
    fetches,       \* the page number of every fetch() of the search url so far
    result,        \* the value the call resolved with
    error          \* the error the call rejected with

\* the state of one call of fetchMergedPRs
fetchVars ==
    <<pc, page, allItems, totalCount, search, enriched, i, batch, progress,
      fetches, result, error>>

VARIABLES
    apc,           \* where runAnalysisPipeline stands: "start", "awaitGen",
                   \* "awaitFind", "awaitWrite", "resolved", "rejected"
    prs,           \* the argument prs
    userEmail,     \* the argument userEmail
    level,         \* the argument level
    clusters,      \* const clusters
    mappings,      \* const mappings
    allQuestions,  \* const allQuestions
    ci,            \* the index i of the stage-3 loop
    gen,           \* the generation call that is awaited
    stages,        \* the arguments of the onStageChange calls made so far
    requests,      \* the generation requests issued so far
    store,         \* the documents of the collection 'assessments'
    existing,      \* const existing of saveAssessment
    storeCalls,    \* the calls of the store made by saveAssessment so far
    assessment,    \* const assessment
    failure        \* the error the run rejected with

\* the state of one call of runAnalysisPipeline and of the store
pipelineVars ==
    <<apc, prs, userEmail, level, clusters, mappings, allQuestions, ci, gen, stages,
      requests, store, existing, storeCalls, assessment, failure>>

VARIABLES
    callers,       \* the calls of saveAssessment and loadAssessment made so far
    input,         \* the argument text of a call of parseJSON
    output,        \* the value that call returned
    localStorage,  \* the item pr_data_<email> of every email
    clock,         \* Date.now()
    durable,       \* the detached writes to the collection 'pr_data'
    prData,        \* the documents of the collection 'pr_data'
    cached,        \* the last call of getCachedPRData and what it returned
    retry,         \* the call of fetchWithRetry
    wizard         \* the setup wizard

\* the state of the callers of the persistence functions
\* the state of the PR cache
cacheVars == <<localStorage, clock, durable, prData, cached>>

\* the state of the other fetch layer and of the setup wizard
sideVars == <<retry, wizard>>

clientVars == <<callers, input, output, cacheVars, sideVars>>

\* no persistence function has been called
\* nothing is cached and the cache has not been asked
CacheIdle ==
    /\ localStorage = [u \in {"ann@x.io", "bob@x.io"} |-> <<>>]
    /\ clock = 0
    /\ durable = <<>>
    /\ prData = <<>>
    /\ cached = <<>>

\* fetchWithRetry has not been called
IdleRetry ==
    [st |-> "idle", attempt |-> 0, requests |-> 0, sleeps |-> 0,
     res |-> <<>>, now |-> 0, waitMs |-> <<>>]

\* a token: the prefix it starts with, its length, and whether it is a token
\* of a GitHub user
PatToken(prefix, length, live) ==
    [prefix |-> prefix, length |-> length, live |-> live]

\* the empty string
NoToken == PatToken("", 0, FALSE)

\* createWizard has not been called
ClosedWizard ==
    [open           |-> FALSE,
     currentStep    |-> 0,
     githubPat      |-> NoToken,
     patVerified    |-> FALSE,
     field          |-> NoToken,
     nextDisabled   |-> FALSE,
     verifyDisabled |-> FALSE,
     tests          |-> <<>>,
     valid          |-> {}]

SideIdle ==
    /\ retry = IdleRetry
    /\ wizard = ClosedWizard

ClientIdle ==
    /\ callers = <<>>
    /\ input = <<>>
    /\ output = <<>>
    /\ CacheIdle
    /\ SideIdle

vars == <<fetchVars, pipelineVars, clientVars>>

SearchUrl(p) == [kind |-> "search", n |-> p]

DetailUrl(n) == [kind |-> "detail", n |-> n]

\* if (page === 1) totalCount = data.total_count
NextTotalCountMut(p, total, data) == data.total_count
NextTotalCount(p, total, data) == IF p = 1 THEN data.total_count ELSE total

\* allItems.length >= totalCount || data.items.length < PER_PAGE
ShouldStopMutTotal(len, total, pageLen) == len >= total
ShouldStopMutShort(len, total, pageLen) == len > total \/ pageLen < PER_PAGE
ShouldStop(len, total, pageLen) == len >= total \/ pageLen < PER_PAGE

SearchProgress(fetched, total) ==
    [fetched |-> fetched, total |-> total, enriching |-> None]

EnrichProgress(fetched, total, n) ==
    [fetched |-> fetched, total |-> total, enriching |-> Some(n)]

(***************************************************************************)
(* enrichPR                                                                *)
(***************************************************************************)
\* x || 0
OrZero(o) == IF IsSome(o) THEN o[1] ELSE 0

\* const pr = { title, url, repo, mergedAt, body, additions: 0, deletions: 0 }
NewPR(item) ==
    [title     |-> item.title,
     url       |-> item.html_url,
     repo      |-> extractRepo(item.repository_url),
     mergedAt  |-> IF IsSome(item.pull_request)
                   THEN item.pull_request[1].merged_at ELSE None,
     body      |-> IF IsSome(item.body) THEN item.body[1] ELSE "",
     additions |-> 0,
     deletions |-> 0]

\* the body of `if (res.ok)`
WithDetailMut(pr, detail) ==
    [pr EXCEPT !.additions = OrZero(detail.additions),
               !.deletions = OrZero(detail.deletions),
               !.mergedAt  = detail.merged_at]
WithDetail(pr, detail) ==
    [pr EXCEPT !.additions = OrZero(detail.additions),
               !.deletions = OrZero(detail.deletions),
               !.mergedAt  = IF IsSome(detail.merged_at) THEN detail.merged_at ELSE @]

\* the try block once fetchWithRateLimit has settled as call c; a throw is
\* caught and leaves pr as it is
DetailSucceeded(c) == c.st = "returned" /\ Ok(c.result[1])

AfterDetail(pr, c) ==
    IF DetailSucceeded(c) THEN WithDetail(pr, c.result[1].body) ELSE pr

\* one enrichPR call of a batch: its item, its pr, its fetchWithRateLimit
\* call, the detail it read, and whether its promise has resolved
StartSlot(item) ==
    IF IsSome(item.pull_request)
    THEN [item |-> item, pr |-> NewPR(item),
          call |-> NewCall(DetailUrl(item.pull_request[1].url)),
          detail |-> None, done |-> FALSE]
    ELSE [item |-> item, pr |-> NewPR(item), call |-> IdleCall,
          detail |-> None, done |-> TRUE]

SettleSlot(slot, c) ==
    [slot EXCEPT !.pr = AfterDetail(@, c),
                 !.detail = IF DetailSucceeded(c) THEN Some(c.result[1].body) ELSE None,
                 !.call = IdleCall,
                 !.done = TRUE]

\* allItems.slice(from, from + size), from counted from 0
Slice(items, from, size) ==
    SubSeq(items, from + 1, IF from + size < Len(items) THEN from + size ELSE Len(items))

\* batch.map(item => enrichPR(item, headers)): every call runs to its first
\* await, so the detail requests of a batch are all issued in this step
StartBatch(items) == [k \in 1..Len(items) |-> StartSlot(items[k])]

\* Promise.all settles when every promise of the batch has
AllSettledMut(b) == \E k \in 1..Len(b) : b[k].done
AllSettled(b) == \A k \in 1..Len(b) : b[k].done

\* the results of Promise.all, in the order of the batch
BatchResultsMut(b) == [k \in 1..Len(b) |-> b[Len(b) + 1 - k].pr]
BatchResults(b) == [k \in 1..Len(b) |-> b[k].pr]

(***************************************************************************)
(* The text of a model response and parseJSON                              *)
(***************************************************************************)
\* A JSON value as far as the code looks at it: an array with its elements,
\* or a value that is no array
Array(items) == [kind |-> "array", items |-> items]
JsonObject == [kind |-> "object", items |-> <<>>]
JsonNull == [kind |-> "null", items |-> <<>>]
NoJson == [kind |-> "none", items |-> <<>>]

\* A text is a sequence of tokens: a run of three backticks, the word json,
\* white space, the text of a JSON value, or other words
Token(k, v) == [k |-> k, v |-> v]
Fence == Token("fence", NoJson)
JsonTag == Token("json", NoJson)
Space == Token("space", NoJson)
Prose == Token("prose", NoJson)
JsTag == Token("javascript", NoJson)
Doc(v) == Token("doc", v)

IsSpace(t) == t.k = "space"

RECURSIVE TrimStart(_)
TrimStart(s) ==
    IF s # <<>> /\ IsSpace(Head(s)) THEN TrimStart(Tail(s)) ELSE s

RECURSIVE TrimEnd(_)
TrimEnd(s) ==
    IF s # <<>> /\ IsSpace(s[Len(s)])
    THEN TrimEnd(SubSeq(s, 1, Len(s) - 1))
    ELSE s

\* text.trim()
Trim(s) == TrimEnd(TrimStart(s))

\* cleaned.startsWith('```')
StartsWithFence(s) == s # <<>> /\ Head(s).k = "fence"

\* .replace(/^```(?:json)?\s*/, '') on a text that starts with a fence
StripOpeningFence(s) ==
    LET r == Tail(s)
    IN  TrimStart(IF r # <<>> /\ Head(r).k = "json" THEN Tail(r) ELSE r)

\* .replace(/\s*```$/, '')
StripClosingFence(s) ==
    IF s # <<>> /\ s[Len(s)].k = "fence"
    THEN TrimEnd(SubSeq(s, 1, Len(s) - 1))
    ELSE s

\* JSON.parse: the value of a text that is one JSON value with white space
\* around it, None when it throws
JSONParse(s) ==
    LET t == Trim(s)
    IN  IF Len(t) = 1 /\ t[1].k = "doc" THEN Some(t[1].v) ELSE None

Cleaned(text) ==
    LET cleaned == Trim(text)
    IN  IF StartsWithFence(cleaned)
        THEN StripClosingFence(StripOpeningFence(cleaned))
        ELSE cleaned

parseJSONMut(text) ==
    LET parsed == JSONParse(Cleaned(text))
    IN  IF IsSome(parsed) THEN parsed[1] ELSE JsonNull

parseJSON(text) ==
    LET parsed == JSONParse(Cleaned(text))
    IN  IF IsSome(parsed) THEN parsed[1] ELSE Array(<<>>)

\* chunk.choices[0]?.delta?.content || '' of a chunk, which may have no content
Delta(chunk) == IF IsSome(chunk) THEN chunk[1] ELSE <<>>

\* fullResponse += delta
AddDeltaMut(fullResponse, delta) == delta \o fullResponse
AddDelta(fullResponse, delta) == fullResponse \o delta

\* the streams a text may arrive as: in one chunk, or in two chunks around
\* a chunk without content
Streams(text) ==
    {<<Some(text)>>}
      \cup (IF Len(text) < 2 THEN {}
            ELSE {<<Some(<<Head(text)>>), None, Some(Tail(text))>>})

(***************************************************************************)
(* clusterPRsIntoProjects, mapClustersToHandbook,                          *)
(* generateQuestionsForCluster: what they make of the parsed response      *)
(***************************************************************************)
IsArray(v) == v.kind = "array"

\* x || []
OrEmpty(o) == IF IsSome(o) THEN o[1] ELSE <<>>

\* prs[i] for the 0-based index i: None when it is undefined
AtMut(list, idx) ==
    IF idx >= 1 /\ idx <= Len(list) THEN Some(list[idx]) ELSE None
At(list, idx) ==
    IF idx >= 0 /\ idx < Len(list) THEN Some(list[idx + 1]) ELSE None

\* indices.map(i => prs[i]).filter(Boolean)
RECURSIVE ResolvePRsMut(_, _)
ResolvePRsMut(indices, list) ==
    IF indices = <<>> THEN <<>>
    ELSE ResolvePRsMut(Tail(indices), list) \o At(list, Head(indices))

RECURSIVE ResolvePRs(_, _)
ResolvePRs(indices, list) ==
    IF indices = <<>> THEN <<>>
    ELSE At(list, Head(indices)) \o ResolvePRs(Tail(indices), list)

\* cluster => ({ id, name, summary, prs })
AttachPRs(cluster, list) ==
    [id      |-> cluster.id,
     name    |-> cluster.name,
     summary |-> cluster.summary,
     prs     |-> ResolvePRs(OrEmpty(cluster.prIndices), list)]

\* clusters.map(...) of the parsed array
ClustersOf(parsed, list) ==
    [k \in 1..Len(parsed.items) |-> AttachPRs(parsed.items[k], list)]

\* mappings.find(m => m.clusterId === cluster.id)
RECURSIVE Find(_, _)
Find(items, id) ==
    IF items = <<>> THEN None
    ELSE IF Head(items).clusterId = id THEN Some(Head(items))
    ELSE Find(Tail(items), id)

\* const clusterMappings = mappings.find(...)?.categories || []
ClusterMappings(maps, cluster) ==
    LET m == Find(maps.items, cluster.id)
    IN  IF IsSome(m) THEN OrEmpty(m[1].categories) ELSE <<>>

\* ${cluster.id} in a template string
IdText(id) == IF IsSome(id) THEN id[1] ELSE "undefined"

\* `${cluster.id}-q${i + 1}` for the 0-based position i = k - 1
QuestionIdMut(cluster, q, k) == IdText(q.id)
QuestionId(cluster, q, k) == IdText(cluster.id) \o "-q" \o ToString(k)

\* { clusterId, questions: questions.map((q, i) => ({ id, text, context })) }
QuestionsOf(cluster, parsed) ==
    [clusterId |-> cluster.id,
     questions |->
        [k \in 1..Len(parsed.items) |->
            [id      |-> QuestionId(cluster, parsed.items[k], k),
             text    |-> parsed.items[k].text,
             context |-> IF IsSome(parsed.items[k].context)
                         THEN parsed.items[k].context[1] ELSE ""]]]

(***************************************************************************)
(* runAnalysisPipeline: reports, requests, the assessment                  *)
(***************************************************************************)
\* allQuestions.push(result)
PushMut(list, item) == <<item>> \o list
Push(list, item) == Append(list, item)

ClusteringLabel == "Clustering PRs into projects..."
MappingLabel == "Mapping to Impact Handbook..."

\* `Generating questions... (${i + 1}/${clusters.length})` for k = i + 1
QuestionsLabelMut(k, n) ==
    "Generating questions... (" \o ToString(k - 1) \o "/" \o ToString(n) \o ")"
QuestionsLabel(k, n) ==
    "Generating questions... (" \o ToString(k) \o "/" \o ToString(n) \o ")"

\* the label of the reports of a stage, for cluster k of n in stage 3
LabelOf(stage, k, n) ==
    CASE stage = 1 -> ClusteringLabel
      [] stage = 2 -> MappingLabel
      [] OTHER     -> QuestionsLabel(k, n)

\* the step reported in a stage: step: 1, step: 2, step: 3
StepOfMut(stage) == 4 - stage
StepOf(stage) == stage

\* the argument of one onStageChange call
StageChange(step, label, detail) ==
    [step |-> step, label |-> label, detail |-> detail]

\* one openai.chat.completions.create call: its stage, the cluster it is for
\* (0 in stages 1 and 2), the mappings given to it, and whether it is awaited
Request(stage, k, categories) ==
    [stage |-> stage, cluster |-> k, categories |-> categories, open |-> TRUE]

\* the last request is not awaited any more
Close(reqs) == [reqs EXCEPT ![Len(reqs)].open = FALSE]

\* the generation call: its request is awaited ("requested") or its stream
\* is read ("streaming")
IdleGen ==
    [st |-> "idle", stage |-> 0, chunks |-> <<>>, read |-> 0,
     fullResponse |-> <<>>]
NewGen(stage) == [IdleGen EXCEPT !.st = "requested", !.stage = stage]

\* const assessment = { userEmail, clusters, mappings, questions, narrative,
\* generatedAt }
Assessment(u, cl, maps, qs, t) ==
    [userEmail   |-> u,
     clusters    |-> cl,
     mappings    |-> maps,
     questions   |-> qs,
     narrative   |-> None,
     generatedAt |-> t]

(***************************************************************************)
(* The collection 'assessments'                                            *)
(***************************************************************************)
\* collection.where({ userEmail }).find()
MatchesMut(st, u) == st
Matches(st, u) == SelectSeq(st, LAMBDA e : e.doc.userEmail = u)

\* collection.update(id, assessment)
Update(st, id, doc) ==
    [k \in 1..Len(st) |->
        IF st[k].id = id THEN [id |-> id, doc |-> doc] ELSE st[k]]

\* collection.create(assessment)
CreateMut(st, doc) ==
    IF Matches(st, doc.userEmail) # <<>> THEN st
    ELSE Append(st, [id |-> Len(st) + 1, doc |-> doc])
Create(st, doc) == Append(st, [id |-> Len(st) + 1, doc |-> doc])

\* one call of the store made by saveAssessment, and how it ended
StoreCall(op) == [op |-> op, st |-> "pending"]
Settle(calls, how) == [calls EXCEPT ![Len(calls)].st = how]

\* existing && existing.length > 0
HasExistingMut(found) == FALSE
HasExisting(found) == Len(found) > 0

\* the catch of saveAssessment: the error is logged and the call returns
AfterSaveErrorMut == "rejected"
AfterSaveError == "resolved"

\* a call of runAnalysisPipeline that has not started
PipelineIdle ==
    /\ apc = "start"
    /\ prs = <<>>
    /\ userEmail = ""
    /\ level = ""
    /\ clusters = <<>>
    /\ mappings = Array(<<>>)
    /\ allQuestions = <<>>
    /\ ci = 0
    /\ gen = IdleGen
    /\ stages = <<>>
    /\ requests = <<>>
    /\ store = <<>>
    /\ existing = <<>>
    /\ storeCalls = <<>>
    /\ assessment = None
    /\ failure = "none"

(***************************************************************************)
(* fetchMergedPRs                                                          *)
(***************************************************************************)
FetchIdle ==
    /\ pc = "start"
    /\ page = 1
    /\ allItems = <<>>
    /\ totalCount = 0
    /\ search = IdleCall
    /\ enriched = <<>>
    /\ i = 0
    /\ batch = <<>>
    /\ progress = <<>>
    /\ fetches = <<>>
    /\ result = None
    /\ error = NoError

Init == FetchIdle /\ PipelineIdle /\ ClientIdle

\* fetchMergedPRs is called: it runs to the first await, the request of page 1
Call ==
    /\ UNCHANGED pipelineVars
    /\ UNCHANGED clientVars
    /\ pc = "start"
    /\ pc' = "awaitSearch"
    /\ search' = NewCall(SearchUrl(page))
    /\ fetches' = Append(fetches, page)
    /\ UNCHANGED <<page, allItems, totalCount, enriched, i, batch, progress,
                   result, error>>

\* the search endpoint answers the fetch of the search call with one of
\* outcomes; fetchWithRateLimit returns, throws or goes to sleep
SearchRespond(lens, totals, shifted) ==
    /\ UNCHANGED pipelineVars
    /\ UNCHANGED clientVars
    /\ pc = "awaitSearch"
    /\ search.st = "inflight"
    /\ \E r \in SearchOutcomes(page, lens, totals, shifted), now \in Clock :
          search' = OnResponse(search, r, now)
    /\ UNCHANGED <<pc, page, allItems, totalCount, enriched, i, batch,
                   progress, fetches, result, error>>

SearchResponse == SearchRespond(ShortLens, ShortTotals, Steady)

SearchResponsePaged == SearchRespond(PagedLens, TotalCounts, ShiftedLens)

\* the sleep of the search call is over: it fetches the same url again
SearchWake ==
    /\ UNCHANGED pipelineVars
    /\ UNCHANGED clientVars
    /\ pc = "awaitSearch"
    /\ search.st = "sleeping"
    /\ search' = OnWake(search)
    /\ fetches' = Append(fetches, page)
    /\ UNCHANGED <<pc, page, allItems, totalCount, enriched, i, batch,
                   progress, result, error>>

\* the call rejects; nothing is awaited any more
Reject(e) ==
    /\ pc' = "rejected"
    /\ error' = e
    /\ search' = IdleCall
    /\ UNCHANGED <<page, allItems, totalCount, enriched, i, batch, progress,
                   fetches, result>>

\* the for loop at index from with enriched so far done: start the batch at
\* from, or return enriched when no item is left
EnrichFrom(items, from, done) ==
    /\ i' = from
    /\ enriched' = done
    /\ IF from < Len(items)
       THEN /\ pc' = "awaitBatch"
            /\ batch' = StartBatch(Slice(items, from, batchSize))
            /\ UNCHANGED result
       ELSE /\ pc' = "done"
            /\ batch' = <<>>
            /\ result' = Some(done)

\* fetchWithRateLimit has settled: the loop body after the await, up to the
\* next await (the next page request, or the first batch) or to the return
SearchContinue ==
    /\ UNCHANGED pipelineVars
    /\ UNCHANGED clientVars
    /\ pc = "awaitSearch"
    /\ search.st \in {"returned", "thrown"}
    /\ IF search.st = "thrown" THEN Reject(search.error)
       ELSE LET res == search.result[1] IN
            IF ~Ok(res) THEN Reject(SearchError(res))
            ELSE LET data  == res.body
                     total == NextTotalCount(page, totalCount, data)
                     items == allItems \o data.items
                 IN  /\ totalCount' = total
                     /\ allItems' = items
                     /\ progress' = Append(progress, SearchProgress(Len(items), total))
                     /\ error' = error
                     /\ IF ShouldStop(Len(items), total, Len(data.items))
                        THEN /\ search' = IdleCall
                             /\ EnrichFrom(items, 0, <<>>)
                             /\ UNCHANGED <<page, fetches>>
                        ELSE /\ page' = page + 1
                             /\ search' = NewCall(SearchUrl(page + 1))
                             /\ fetches' = Append(fetches, page + 1)
                             /\ UNCHANGED <<pc, enriched, i, batch, result>>

\* the detail endpoint answers the fetch of slot k with one of outcomes:
\* fetchWithRateLimit goes to sleep, or it settles and enrichPR resolves
DetailRespond(k, outcomes) ==
    /\ UNCHANGED pipelineVars
    /\ UNCHANGED clientVars
    /\ pc = "awaitBatch"
    /\ batch[k].call.st = "inflight"
    /\ \E r \in outcomes, now \in DetailClock :
          LET c == OnResponse(batch[k].call, r, now)
          IN  batch' = [batch EXCEPT ![k] =
                           IF c.st = "sleeping" THEN [@ EXCEPT !.call = c]
                           ELSE SettleSlot(@, c)]
    /\ UNCHANGED <<pc, page, allItems, totalCount, search, enriched, i,
                   progress, fetches, result, error>>

DetailResponse ==
    \E k \in 1..Len(batch) : DetailRespond(k, DetailOutcomes(batch[k].call.url.n))

DetailResponseOK ==
    \E k \in 1..Len(batch) : DetailRespond(k, HealthyOutcomes(batch[k].call.url.n))

\* the sleep of the detail call of slot k is over: it fetches again
DetailWake ==
    \E k \in 1..Len(batch) :
        /\ UNCHANGED pipelineVars
        /\ UNCHANGED clientVars
        /\ pc = "awaitBatch"
        /\ batch[k].call.st = "sleeping"
        /\ batch' = [batch EXCEPT ![k].call = OnWake(@)]
        /\ UNCHANGED <<pc, page, allItems, totalCount, search, enriched, i,
                       progress, fetches, result, error>>

\* Promise.all has settled: push the results, report, go on with the loop
BatchResolve ==
    /\ UNCHANGED pipelineVars
    /\ UNCHANGED clientVars
    /\ pc = "awaitBatch"
    /\ AllSettled(batch)
    /\ LET done == enriched \o BatchResults(batch)
       IN  /\ progress' = Append(progress,
                                 EnrichProgress(Len(allItems), totalCount, Len(done)))
           /\ EnrichFrom(allItems, i + batchSize, done)
    /\ UNCHANGED <<page, allItems, totalCount, search, fetches, error>>

\* a small result set and every outcome of the detail calls
Next ==
    \/ Call
    \/ SearchResponse
    \/ SearchWake
    \/ SearchContinue
    \/ DetailResponse
    \/ DetailWake
    \/ BatchResolve

Spec == Init /\ [][Next]_vars

\* full pages and a detail endpoint that always answers
NextPaging ==
    \/ Call
    \/ SearchResponsePaged
    \/ SearchWake
    \/ SearchContinue
    \/ DetailResponseOK
    \/ BatchResolve

SpecPaging == Init /\ [][NextPaging]_vars

(***************************************************************************)
(* What the model may answer.  A response is any text; the texts below     *)
(* hold well-formed answers, answers whose indices and ids are off         *)
(* (repeated, out of range, negative, missing), fenced answers, text that  *)
(* is no JSON, and JSON that is no array.                                  *)
(***************************************************************************)
MaxPRs == 5

\* an index no list of the model has
Beyond == MaxPRs + 1

ClusterItem(id, indices) ==
    [id |-> id, name |-> Some("name"), summary |-> Some("summary"),
     prIndices |-> indices]

TwoProjects ==
    Array(<<ClusterItem(Some("c1"), Some(<<0, 2>>)),
            ClusterItem(Some("c2"), Some(<<1, 3, 4>>))>>)

Messy ==
    Array(<<ClusterItem(Some("c1"), Some(<<1, Beyond, 1, -1>>)),
            ClusterItem(None, None),
            ClusterItem(Some("c1"), Some(<<0>>))>>)

OutOfRange == Array(<<ClusterItem(Some("c1"), Some(<<Beyond>>))>>)

Shared ==
    Array(<<ClusterItem(Some("c1"), Some(<<0>>)),
            ClusterItem(Some("c2"), Some(<<0>>)),
            ClusterItem(Some("c3"), Some(<<>>))>>)

ClusterTexts ==
    {<<Doc(TwoProjects)>>,
     <<Doc(Messy)>>,
     <<Doc(OutOfRange)>>,
     <<Fence, JsonTag, Space, Doc(Shared), Space, Fence>>,
     <<Doc(Array(<<>>))>>,
     <<Prose, Space, Doc(TwoProjects)>>,
     <<Doc(JsonObject)>>}

\* the ids of the categories of the handbook
FOUNDATION ==
    <<"shipping-prs", "reviewing-prs", "collaborating", "team-responsibilities",
      "using-ai">>
CORE_C5 == <<"advancing-projects", "building-knowledge", "improving-quality">>
CORE_C6 == <<"leading-projects", "taking-ownership", "mentoring">>
CORE_C7 == <<"shaping-direction", "cross-team-impact", "raising-the-bar">>
PEAK ==
    <<"telling-people", "side-quests", "stretching-impact",
      "cultivating-best-practices">>

\* CORE_BY_LEVEL[level] || CORE_C5
CORE_BY_LEVEL(lv) ==
    IF lv \in {"C4", "C5"} THEN CORE_C5
    ELSE IF lv = "C6" THEN CORE_C6
    ELSE IF lv \in {"C7", "C8"} THEN CORE_C7
    ELSE CORE_C5

\* getAllCategories(level).map(c => c.id)
getAllCategories(lv) == FOUNDATION \o CORE_BY_LEVEL(lv) \o PEAK

Category(id) == [categoryId |-> id, relevance |-> "high", evidence |-> "why"]

Mapping(id, categories) == [clusterId |-> id, categories |-> categories]

MapBoth ==
    Array(<<Mapping(Some("c1"), Some(<<Category("shipping-prs")>>)),
            Mapping(Some("c2"), Some(<<Category("using-ai"),
                                       Category("mentoring")>>))>>)

MapOdd ==
    Array(<<Mapping(Some("zz"), Some(<<Category("mentoring")>>)),
            Mapping(Some("c1"), None),
            Mapping(Some("c1"), Some(<<Category("made-up")>>)),
            Mapping(None, Some(<<Category("side-quests")>>))>>)

MappingTexts ==
    {<<Doc(MapBoth)>>,
     <<Fence, Space, Doc(MapOdd), Fence>>,
     <<Prose>>,
     <<Doc(JsonObject)>>}

Question(id, text, context) == [id |-> id, text |-> text, context |-> context]

TwoQuestions ==
    Array(<<Question(Some("q7"), Some("What was hard?"), Some("context")),
            Question(Some("c1-q1"), Some("Why?"), None)>>)

OneQuestion == Array(<<Question(None, None, None)>>)

QuestionTexts ==
    {<<Doc(TwoQuestions)>>,
     <<Fence, JsonTag, Doc(OneQuestion)>>,
     <<Prose>>,
     <<Doc(JsonNull)>>}

Texts(stage) ==
    CASE stage = 1 -> ClusterTexts
      [] stage = 2 -> MappingTexts
      [] OTHER     -> QuestionTexts

\* the PR list the caller passes: n records of fetchMergedPRs
PRList(n) == [k \in 1..n |-> NewPR(Hit(k))]

Callers == {"ann@x.io"}

\* the levels of the callers
Levels == {"C5", "C6"}

\* Date.now()
Times == {2000}

\* a document stored by an earlier run
Stored(u) ==
    [Assessment(u, <<>>, Array(<<>>), <<>>, 1000) EXCEPT
        !.narrative = Some("story")]

InitialStores ==
    {<<>>,
     <<[id |-> 1, doc |-> Stored("bob@x.io")],
       [id |-> 2, doc |-> Stored("ann@x.io")]>>}

(***************************************************************************)
(* runAnalysisPipeline                                                     *)
(***************************************************************************)
\* prs.length === 0
NoPRsMut(list) == FALSE
NoPRs(list) == Len(list) = 0

\* clusters.length === 0
NoClustersMut(cl) == FALSE
NoClusters(cl) == Len(cl) = 0

InitPipeline ==
    /\ FetchIdle
    /\ ClientIdle
    /\ apc = "start"
    /\ prs \in {PRList(n) : n \in 0..MaxPRs}
    /\ userEmail \in Callers
    /\ level \in Levels
    /\ clusters = <<>>
    /\ mappings = Array(<<>>)
    /\ allQuestions = <<>>
    /\ ci = 0
    /\ gen = IdleGen
    /\ stages = <<>>
    /\ requests = <<>>
    /\ store \in InitialStores
    /\ existing = <<>>
    /\ storeCalls = <<>>
    /\ assessment = None
    /\ failure = "none"

\* the run rejects with e; nothing is awaited any more
ThrowMut(e, stg, reqs) ==
    /\ apc' = "awaitFind"
    /\ failure' = e
    /\ gen' = IdleGen
    /\ stages' = stg
    /\ requests' = reqs
    /\ assessment' = Some(Assessment(userEmail, clusters, mappings,
                                     allQuestions, CHOOSE t \in Times : TRUE))
    /\ storeCalls' = <<StoreCall("find")>>
Throw(e, stg, reqs) ==
    /\ apc' = "rejected"
    /\ failure' = e
    /\ gen' = IdleGen
    /\ stages' = stg
    /\ requests' = reqs
    /\ UNCHANGED <<assessment, storeCalls>>

\* the for loop of stage 3 at index from, with the question sets qs so far:
\* the request for the next cluster, or the assessment and the find of
\* saveAssessment when no cluster is left
Stage3(cl, maps, from, qs, stg, reqs) ==
    /\ clusters' = cl
    /\ mappings' = maps
    /\ allQuestions' = qs
    /\ ci' = from
    /\ IF from < Len(cl)
       THEN IF ~IsArray(maps) THEN Throw("TypeError", stg, reqs)
            ELSE /\ apc' = "awaitGen"
                 /\ gen' = NewGen(3)
                 /\ stages' = Append(stg, StageChange(StepOf(3),
                                 QuestionsLabel(from + 1, Len(cl)), None))
                 /\ requests' = Append(reqs, Request(3, from + 1,
                                   ClusterMappings(maps, cl[from + 1])))
                 /\ UNCHANGED <<assessment, storeCalls, failure>>
       ELSE /\ apc' = "awaitFind"
            /\ gen' = IdleGen
            /\ stages' = stg
            /\ requests' = reqs
            /\ \E t \in Times :
                  assessment' = Some(Assessment(userEmail, cl, maps, qs, t))
            /\ storeCalls' = <<StoreCall("find")>>
            /\ UNCHANGED failure

\* stage 2 with the clusters cl of stage 1: the mapping request, or an empty
\* mapping list and stage 3 when there is no cluster
Stage2(cl, stg, reqs) ==
    LET reports == Append(stg, StageChange(StepOf(2), MappingLabel, None))
    IN  IF NoClusters(cl)
        THEN Stage3(cl, Array(<<>>), 0, <<>>, reports, reqs)
        ELSE /\ clusters' = cl
             /\ apc' = "awaitGen"
             /\ gen' = NewGen(2)
             /\ stages' = reports
             /\ requests' = Append(reqs, Request(2, 0, <<>>))
             /\ UNCHANGED <<mappings, allQuestions, ci, assessment,
                            storeCalls, failure>>

\* runAnalysisPipeline is called: it runs to its first await
StartPipeline ==
    /\ apc = "start"
    /\ LET reports == <<StageChange(StepOf(1), ClusteringLabel, None)>>
       IN  IF NoPRs(prs)
           THEN Stage2(<<>>, reports, <<>>)
           ELSE /\ apc' = "awaitGen"
                /\ gen' = NewGen(1)
                /\ stages' = reports
                /\ requests' = <<Request(1, 0, <<>>)>>
                /\ UNCHANGED <<clusters, mappings, allQuestions, ci,
                               assessment, storeCalls, failure>>
    /\ UNCHANGED <<prs, userEmail, level, store, existing>>
    /\ UNCHANGED fetchVars
    /\ UNCHANGED clientVars

\* the request of the awaited generation call is answered with a stream
StreamOpens ==
    /\ apc = "awaitGen"
    /\ gen.st = "requested"
    /\ \E text \in Texts(gen.stage) : \E chunks \in Streams(text) :
          gen' = [gen EXCEPT !.st = "streaming", !.chunks = chunks]
    /\ UNCHANGED <<apc, prs, userEmail, level, clusters, mappings, allQuestions, ci,
                   stages, requests, store, existing, storeCalls, assessment,
                   failure>>
    /\ UNCHANGED fetchVars
    /\ UNCHANGED clientVars

\* the request or the stream of the awaited generation call raises
GenerationFails ==
    /\ apc = "awaitGen"
    /\ gen.st \in {"requested", "streaming"}
    /\ Throw("generation", stages, Close(requests))
    /\ UNCHANGED <<prs, userEmail, level, clusters, mappings, allQuestions, ci,
                   store, existing>>
    /\ UNCHANGED fetchVars
    /\ UNCHANGED clientVars

\* the next chunk of the stream: fullResponse += delta; onStream?.(delta)
StreamChunk ==
    /\ apc = "awaitGen"
    /\ gen.st = "streaming"
    /\ gen.read < Len(gen.chunks)
    /\ LET delta == Delta(gen.chunks[gen.read + 1])
       IN  /\ gen' = [gen EXCEPT !.read = @ + 1,
                                 !.fullResponse = AddDelta(@, delta)]
           /\ stages' = Append(stages,
                 StageChange(StepOf(gen.stage),
                             LabelOf(gen.stage, ci + 1, Len(clusters)),
                             Some(delta)))
    /\ UNCHANGED <<apc, prs, userEmail, level, clusters, mappings, allQuestions, ci,
                   requests, store, existing, storeCalls, assessment, failure>>
    /\ UNCHANGED fetchVars
    /\ UNCHANGED clientVars

\* the stream has ended: the response is parsed and the run goes on to its
\* next await
StreamEnds ==
    /\ apc = "awaitGen"
    /\ gen.st = "streaming"
    /\ gen.read = Len(gen.chunks)
    /\ LET parsed == parseJSON(gen.fullResponse)
           reqs   == Close(requests)
       IN  CASE gen.stage = 1 ->
                  IF IsArray(parsed)
                  THEN Stage2(ClustersOf(parsed, prs), stages, reqs)
                  ELSE /\ Throw("TypeError", stages, reqs)
                       /\ UNCHANGED <<clusters, mappings, allQuestions, ci>>
             [] gen.stage = 2 ->
                  Stage3(clusters, parsed, 0, <<>>, stages, reqs)
             [] OTHER ->
                  IF IsArray(parsed)
                  THEN Stage3(clusters, mappings, ci + 1,
                              Push(allQuestions,
                                   QuestionsOf(clusters[ci + 1], parsed)),
                              stages, reqs)
                  ELSE /\ Throw("TypeError", stages, reqs)
                       /\ UNCHANGED <<clusters, mappings, allQuestions, ci>>
    /\ UNCHANGED <<prs, userEmail, level, store, existing>>
    /\ UNCHANGED fetchVars
    /\ UNCHANGED clientVars

(***************************************************************************)
(* saveAssessment                                                          *)
(***************************************************************************)
\* find has answered: update of the first match, or create
FindReturns ==
    /\ apc = "awaitFind"
    /\ apc' = "awaitWrite"
    /\ existing' = Matches(store, userEmail)
    /\ storeCalls' =
          Append(Settle(storeCalls, "ok"),
                 StoreCall(IF HasExisting(Matches(store, userEmail))
                           THEN "update" ELSE "create"))
    /\ UNCHANGED <<prs, userEmail, level, clusters, mappings, allQuestions, ci, gen,
                   stages, requests, store, assessment, failure>>
    /\ UNCHANGED fetchVars
    /\ UNCHANGED clientVars

\* the write has been done: saveAssessment returns and the run resolves
WriteReturns ==
    /\ apc = "awaitWrite"
    /\ apc' = "resolved"
    /\ store' = IF HasExisting(existing)
                THEN Update(store, existing[1].id, assessment[1])
                ELSE Create(store, assessment[1])
    /\ storeCalls' = Settle(storeCalls, "ok")
    /\ UNCHANGED <<prs, userEmail, level, clusters, mappings, allQuestions, ci, gen,
                   stages, requests, existing, assessment, failure>>
    /\ UNCHANGED fetchVars
    /\ UNCHANGED clientVars

\* find, update or create raises: the catch of saveAssessment
StoreFails ==
    /\ apc \in {"awaitFind", "awaitWrite"}
    /\ apc' = AfterSaveError
    /\ storeCalls' = Settle(storeCalls, "failed")
    /\ failure' = IF AfterSaveError = "rejected" THEN "store" ELSE failure
    /\ UNCHANGED <<prs, userEmail, level, clusters, mappings, allQuestions, ci, gen,
                   stages, requests, store, existing, assessment>>
    /\ UNCHANGED fetchVars
    /\ UNCHANGED clientVars

NextPipeline ==
    \/ StartPipeline
    \/ StreamOpens
    \/ GenerationFails
    \/ StreamChunk
    \/ StreamEnds
    \/ FindReturns
    \/ WriteReturns
    \/ StoreFails

SpecPipeline == InitPipeline /\ [][NextPipeline]_vars

(***************************************************************************)
(* saveAssessment and loadAssessment, called by several callers.  A call   *)
(* runs to its await of find when it is made; the store answers the find   *)
(* and the write of each call at any later time, or raises.                *)
(***************************************************************************)
MaxCalls == 3

Emails == {"ann@x.io", "bob@x.io"}

\* the assessment handed to the n-th call
AssessmentOf(u, n) ==
    Assessment(u, <<>>, IF n % 2 = 0 THEN Array(<<>>) ELSE MapBoth, <<>>, n)

\* a call is not over
Pending(c) == c.st # "returned"

\* the number of the next answer of the store: one more than the answers
\* the calls have had
Answers(list) ==
    Cardinality({k \in 1..Len(list) : list[k].foundAt > 0})
       + Cardinality({k \in 1..Len(list) : list[k].wroteAt > 0}) + 1

\* a call of saveAssessment(doc) or loadAssessment(userEmail) at its await of
\* find; overlaps tells whether another call was not over when it was made,
\* foundAt and wroteAt which answers of the store its find and its write were
NewCaller(op, u, doc, list) ==
    [op        |-> op,
     st        |-> "awaitFind",
     userEmail |-> u,
     doc       |-> doc,
     existing  |-> <<>>,
     result    |-> None,
     failed    |-> FALSE,
     foundAt   |-> 0,
     wroteAt   |-> 0,
     overlaps  |-> \E k \in 1..Len(list) : Pending(list[k])]

\* results && results.length > 0 ? results[0] : null
FirstOfMut(results) ==
    IF Len(results) > 0 THEN Some(results[Len(results)]) ELSE None
FirstOf(results) ==
    IF Len(results) > 0 THEN Some(results[1]) ELSE None

\* saveAssessment(assessment) is called
CallSave ==
    /\ Len(callers) < MaxCalls
    /\ \E u \in Emails :
          callers' = Append(callers,
                            NewCaller("save", u,
                                      Some(AssessmentOf(u, Len(callers) + 1)),
                                      callers))
    /\ UNCHANGED fetchVars
    /\ UNCHANGED <<input, output>>
    /\ UNCHANGED cacheVars
    /\ UNCHANGED sideVars
    /\ UNCHANGED pipelineVars

\* loadAssessment(userEmail) is called
CallLoad ==
    /\ Len(callers) < MaxCalls
    /\ \E u \in Emails :
          callers' = Append(callers, NewCaller("load", u, None, callers))
    /\ UNCHANGED fetchVars
    /\ UNCHANGED <<input, output>>
    /\ UNCHANGED cacheVars
    /\ UNCHANGED sideVars
    /\ UNCHANGED pipelineVars

\* the find of a saveAssessment call has answered: it goes on to its write
SaveFindReturns ==
    \E k \in 1..Len(callers) :
        /\ callers[k].op = "save"
        /\ callers[k].st = "awaitFind"
        /\ callers' = [callers EXCEPT
                          ![k].st = "awaitWrite",
                          ![k].foundAt = Answers(callers),
                          ![k].existing = Matches(store, callers[k].userEmail)]
        /\ UNCHANGED fetchVars
        /\ UNCHANGED <<input, output>>
        /\ UNCHANGED cacheVars
        /\ UNCHANGED sideVars
        /\ UNCHANGED pipelineVars

\* the update or create of a saveAssessment call has been done
SaveWriteReturns ==
    \E k \in 1..Len(callers) :
        /\ callers[k].st = "awaitWrite"
        /\ store' = IF HasExisting(callers[k].existing)
                    THEN Update(store, callers[k].existing[1].id,
                                callers[k].doc[1])
                    ELSE Create(store, callers[k].doc[1])
        /\ callers' = [callers EXCEPT ![k].st = "returned",
                                      ![k].wroteAt = Answers(callers)]
        /\ UNCHANGED fetchVars
        /\ UNCHANGED <<input, output>>
        /\ UNCHANGED cacheVars
        /\ UNCHANGED sideVars
        /\ UNCHANGED <<apc, prs, userEmail, level, clusters, mappings, allQuestions,
                       ci, gen, stages, requests, existing, storeCalls,
                       assessment, failure>>

\* the find of a loadAssessment call has answered: it returns
LoadFindReturns ==
    \E k \in 1..Len(callers) :
        /\ callers[k].op = "load"
        /\ callers[k].st = "awaitFind"
        /\ callers' = [callers EXCEPT
                          ![k].st = "returned",
                          ![k].foundAt = Answers(callers),
                          ![k].result =
                              FirstOf(Matches(store, callers[k].userEmail))]
        /\ UNCHANGED fetchVars
        /\ UNCHANGED <<input, output>>
        /\ UNCHANGED cacheVars
        /\ UNCHANGED sideVars
        /\ UNCHANGED pipelineVars

\* the store call a caller awaits raises: the catch logs it, saveAssessment
\* returns, loadAssessment returns null
CallerStoreFails ==
    \E k \in 1..Len(callers) :
        /\ Pending(callers[k])
        /\ callers' = [callers EXCEPT ![k].st = "returned",
                                      ![k].failed = TRUE]
        /\ UNCHANGED fetchVars
        /\ UNCHANGED <<input, output>>
        /\ UNCHANGED cacheVars
        /\ UNCHANGED sideVars
        /\ UNCHANGED pipelineVars

NextStore ==
    \/ CallSave
    \/ CallLoad
    \/ SaveFindReturns
    \/ SaveWriteReturns
    \/ LoadFindReturns
    \/ CallerStoreFails

SpecStore == Init /\ [][NextStore]_vars

(***************************************************************************)
(* parseJSON, applied to texts made of an opening (fences, language tags,  *)
(* white space), a body and a closing (white space, fences).               *)
(***************************************************************************)
MaxWrap == 3

\* the sequences over S of length at most n
SeqsUpTo(S, n) == UNION {[1..m -> S] : m \in 0..n}

JsonValues == {TwoProjects, JsonObject, Array(<<>>)}

Bodies ==
    {<<Doc(v)>> : v \in JsonValues}
      \cup {<<>>, <<Prose>>, <<Doc(TwoProjects), Prose>>,
            <<Doc(JsonObject), Space, Doc(JsonObject)>>}

Inputs ==
    {lead \o body \o trail :
        lead  \in SeqsUpTo({Fence, JsonTag, JsTag, Space}, MaxWrap),
        body  \in Bodies,
        trail \in SeqsUpTo({Space, Fence}, MaxWrap - 1)}

InitParse ==
    /\ FetchIdle
    /\ PipelineIdle
    /\ callers = <<>>
    /\ CacheIdle
    /\ SideIdle
    /\ input \in Inputs
    /\ output = <<>>

\* parseJSON(text) is called and returns
ParseText ==
    /\ output = <<>>
    /\ output' = Some(parseJSON(input))
    /\ UNCHANGED <<callers, input>>
    /\ UNCHANGED cacheVars
    /\ UNCHANGED sideVars
    /\ UNCHANGED fetchVars
    /\ UNCHANGED pipelineVars

SpecParse == InitParse /\ [][ParseText]_vars

(***************************************************************************)
(* getCachedPRData and storePRData                                         *)
(***************************************************************************)
STALE_HOURS == 24

\* 1000 * 60 * 60
MsPerHour == 1000 * 60 * 60

MaxStores == 2

\* the instants at which something happens: 24 h and 24 h 1 s after the
\* first
Instants == {0, 24 * MsPerHour, 24 * MsPerHour + 1000}

\* two ways to write the first day of a period, and two ends
Starts == {"2024-01-01", "2024-1-1"}
Ends == {"2024-06-30", "2024-12-31"}

\* the period of the profiles that are stored
Periods == {<<"2024-01-01", "2024-06-30">>}

\* const data = { prs, fetchedAt: Date.now(), dateRange: { start, end } }
Snapshot(list, now, periodStart, periodEnd) ==
    [prs       |-> list,
     fetchedAt |-> now,
     dateRange |-> [start |-> periodStart, end |-> periodEnd]]

\* JSON.stringify(data) and JSON.parse(raw): a snapshot holds strings,
\* numbers, null, arrays and plain objects only, which are read back as
\* written
Stringify(data) == [json |-> data]
Parse(raw) == raw.json

\* ageHours > STALE_HOURS for ageHours = (now - fetchedAt) / (1000 * 60 * 60),
\* a division without rounding
StaleMut(now, fetchedAt) == now - fetchedAt >= STALE_HOURS * MsPerHour
Stale(now, fetchedAt) == now - fetchedAt > STALE_HOURS * MsPerHour

\* getCachedPRData for the item raw (None: getItem returns null)
getCachedPRData(raw, now, periodStart, periodEnd) ==
    IF ~IsSome(raw) THEN None
    ELSE LET data == Parse(raw[1])
         IN  IF Stale(now, data.fetchedAt) THEN None
             ELSE IF data.dateRange.start # periodStart
                       \/ data.dateRange.end # periodEnd THEN None
             ELSE Some(data)

\* localStorage.setItem(`pr_data_${email}`, raw)
setItemMut(items, u, raw) == items
setItem(items, u, raw) == [items EXCEPT ![u] = Some(raw)]

\* const doc = { userEmail: email, ...data }
PRDoc(u, data) ==
    [userEmail |-> u,
     prs       |-> data.prs,
     fetchedAt |-> data.fetchedAt,
     dateRange |-> data.dateRange]

\* the detached find().then(...) of one storePRData call
Detached(u, doc) == [userEmail |-> u, doc |-> doc, st |-> "find", existing |-> <<>>]

\* time passes
Tick ==
    /\ \E t \in Instants : t > clock /\ clock' = t
    /\ UNCHANGED <<localStorage, durable, prData, cached>>
    /\ UNCHANGED <<callers, input, output>>
    /\ UNCHANGED sideVars
    /\ UNCHANGED fetchVars
    /\ UNCHANGED pipelineVars

\* storePRData(email, prs, periodStart, periodEnd): setItem, then the find of
\* the durable store is started and not awaited
storePRData ==
    /\ Len(durable) < MaxStores
    /\ \E u \in Emails, period \in Periods :
          LET data == Snapshot(PRList(Len(durable)), clock, period[1], period[2])
          IN  /\ localStorage' = setItem(localStorage, u, Stringify(data))
              /\ durable' = Append(durable, Detached(u, PRDoc(u, data)))
    /\ UNCHANGED <<clock, prData, cached>>
    /\ UNCHANGED <<callers, input, output>>
    /\ UNCHANGED sideVars
    /\ UNCHANGED fetchVars
    /\ UNCHANGED pipelineVars

\* getCachedPRData(email, periodStart, periodEnd) is called and returns
GetCached ==
    /\ \E u \in Emails, periodStart \in Starts, periodEnd \in Ends :
          cached' = Some([email  |-> u,
                          now    |-> clock,
                          start  |-> periodStart,
                          end    |-> periodEnd,
                          result |-> getCachedPRData(localStorage[u], clock,
                                                     periodStart, periodEnd)])
    /\ UNCHANGED <<localStorage, clock, durable, prData>>
    /\ UNCHANGED <<callers, input, output>>
    /\ UNCHANGED sideVars
    /\ UNCHANGED fetchVars
    /\ UNCHANGED pipelineVars

\* the find of a detached write answers: update or create is started
DurableFindReturns ==
    \E k \in 1..Len(durable) :
        /\ durable[k].st = "find"
        /\ durable' = [durable EXCEPT
                          ![k].st = "write",
                          ![k].existing = Matches(prData, durable[k].userEmail)]
        /\ UNCHANGED <<localStorage, clock, prData, cached>>
        /\ UNCHANGED <<callers, input, output>>
        /\ UNCHANGED sideVars
        /\ UNCHANGED fetchVars
        /\ UNCHANGED pipelineVars

\* the update or create of a detached write is done
DurableWriteDone ==
    \E k \in 1..Len(durable) :
        /\ durable[k].st = "write"
        /\ prData' = IF HasExisting(durable[k].existing)
                     THEN Update(prData, durable[k].existing[1].id, durable[k].doc)
                     ELSE Create(prData, durable[k].doc)
        /\ durable' = [durable EXCEPT ![k].st = "done"]
        /\ UNCHANGED <<localStorage, clock, cached>>
        /\ UNCHANGED <<callers, input, output>>
        /\ UNCHANGED sideVars
        /\ UNCHANGED fetchVars
        /\ UNCHANGED pipelineVars

\* the find, update or create of a detached write fails; nobody awaits it
DurableFails ==
    \E k \in 1..Len(durable) :
        /\ durable[k].st \in {"find", "write"}
        /\ durable' = [durable EXCEPT ![k].st = "failed"]
        /\ UNCHANGED <<localStorage, clock, prData, cached>>
        /\ UNCHANGED <<callers, input, output>>
        /\ UNCHANGED sideVars
        /\ UNCHANGED fetchVars
        /\ UNCHANGED pipelineVars

NextCache ==
    \/ Tick
    \/ storePRData
    \/ GetCached
    \/ DurableFindReturns
    \/ DurableWriteDone
    \/ DurableFails

SpecCache == Init /\ [][NextCache]_vars

(***************************************************************************)
(* fetchWithRetry                                                          *)
(***************************************************************************)
\* retries = 2
retries == 2

\* let waitMs = 60_000
FlatWaitMs == 60000

\* Math.min(waitMs, 120_000)
CapMs == 120000

\* Number(s) of a header value: the empty string is 0, a run of digits its
\* value, anything else NaN (None)
Number(s) ==
    IF \A k \in 1..Len(s) : IsDigit(s[k]) THEN Some(DigitsValue(s, Len(s)))
    ELSE None

\* a header value is truthy unless it is missing or the empty string
Truthy(h) == IsSome(h) /\ h[1] # <<>>

\* Math.floor(Date.now() / 1000)
NowSec(now) == now \div 1000

\* Math.min(x, y) and Math.max(x, y); NaN (None) when an argument is NaN
MathMin(x, y) ==
    IF ~IsSome(x) \/ ~IsSome(y) THEN None
    ELSE IF x[1] < y[1] THEN x ELSE y

MathMax(x, y) ==
    IF ~IsSome(x) \/ ~IsSome(y) THEN None
    ELSE IF x[1] > y[1] THEN x ELSE y

\* x * 1000 and x - y; NaN stays NaN
Times1000(x) == IF IsSome(x) THEN Some(x[1] * 1000) ELSE None

\* the waitMs handed to sleep after the response res at the instant now
RetryWaitMs(res, now) ==
    LET wait ==
          IF Truthy(res.retryAfter) THEN Times1000(Number(res.retryAfter[1]))
          ELSE IF Truthy(res.reset)
          THEN LET n == Number(res.reset[1])
               IN  Times1000(MathMax(Some(0),
                                     IF IsSome(n) THEN Some(n[1] - NowSec(now))
                                     ELSE None))
          ELSE Some(FlatWaitMs)
    IN  MathMin(wait, Some(CapMs))

\* res.status === 403 && attempt < retries
ShouldRetryMut(res, attempt) == res.status = 403 /\ attempt <= retries
ShouldRetry(res, attempt) == res.status = 403 /\ attempt < retries

\* a response as fetchWithRetry looks at it
RetryResponse(status, retryAfter, reset) ==
    [status |-> status, retryAfter |-> retryAfter, reset |-> reset]

\* the values of Retry-After: missing, empty, 3 s, 200 s, an HTTP date
RetryAfterHeaders ==
    {None, Some(<<>>), Some(<<"3">>), Some(<<"2", "0", "0">>),
     Some(<<"W", "e", "d">>)}

\* the values of X-RateLimit-Reset, in seconds, for a clock that reads 1 s
RateLimitResetHeaders ==
    {None, Some(<<"0">>), Some(<<"5">>), Some(<<"2", "0", "0">>), Some(<<"x">>)}

RetryOutcomes ==
    {RetryResponse(403, ra, rst) :
        ra \in RetryAfterHeaders, rst \in RateLimitResetHeaders}
      \cup {RetryResponse(200, None, None), RetryResponse(500, None, None),
            RetryResponse(429, Some(<<"3">>), None)}

\* fetchWithRetry(url, options) is called: the first fetch is awaited
CallRetry ==
    /\ retry.st = "idle"
    /\ retry' = [retry EXCEPT !.st = "inflight", !.requests = 1]
    /\ UNCHANGED wizard
    /\ UNCHANGED <<callers, input, output>>
    /\ UNCHANGED cacheVars
    /\ UNCHANGED fetchVars
    /\ UNCHANGED pipelineVars

\* the awaited fetch resolves with res: sleep and retry, or return res
RetryResponds ==
    /\ retry.st = "inflight"
    /\ \E res \in RetryOutcomes, now \in Clock :
          retry' = IF ShouldRetry(res, retry.attempt)
                   THEN [retry EXCEPT !.st = "sleeping",
                                      !.res = Some(res),
                                      !.now = now,
                                      !.sleeps = @ + 1,
                                      !.waitMs = RetryWaitMs(res, now)]
                   ELSE [retry EXCEPT !.st = "returned", !.res = Some(res)]
    /\ UNCHANGED wizard
    /\ UNCHANGED <<callers, input, output>>
    /\ UNCHANGED cacheVars
    /\ UNCHANGED fetchVars
    /\ UNCHANGED pipelineVars

\* the awaited fetch rejects: so does fetchWithRetry
RetryFetchRejects ==
    /\ retry.st = "inflight"
    /\ retry' = [retry EXCEPT !.st = "thrown"]
    /\ UNCHANGED wizard
    /\ UNCHANGED <<callers, input, output>>
    /\ UNCHANGED cacheVars
    /\ UNCHANGED fetchVars
    /\ UNCHANGED pipelineVars

\* the sleep is over: continue, attempt++, and the loop ends and the
\* function returns undefined when attempt > retries, else it fetches again
RetryWakes ==
    /\ retry.st = "sleeping"
    /\ retry' = IF retry.attempt + 1 <= retries
                THEN [retry EXCEPT !.st = "inflight",
                                   !.attempt = @ + 1,
                                   !.requests = @ + 1]
                ELSE [retry EXCEPT !.st = "returned",
                                   !.attempt = @ + 1,
                                   !.res = None]
    /\ UNCHANGED wizard
    /\ UNCHANGED <<callers, input, output>>
    /\ UNCHANGED cacheVars
    /\ UNCHANGED fetchVars
    /\ UNCHANGED pipelineVars

NextRetry ==
    \/ CallRetry
    \/ RetryResponds
    \/ RetryFetchRejects
    \/ RetryWakes

SpecRetry == Init /\ [][NextRetry]_vars

(***************************************************************************)
(* The setup wizard: the token step                                        *)
(***************************************************************************)
TOTAL_STEPS == 4

\* the clicks on Verify Token that are modelled
MaxVerifies == 2

\* what the user may type into the token field: nothing, a token of theirs,
\* a token GitHub does not know, a token that is too short
Typed ==
    {NoToken,
     PatToken("ghp_", 40, TRUE),
     PatToken("github_pat_", 40, FALSE),
     PatToken("ghp_", 12, FALSE)}

\* validateGithubPat(token).valid
validateGithubPat(token) ==
    /\ token # NoToken
    /\ token.prefix \in {"ghp_", "github_pat_"}
    /\ token.length >= 30

\* the results of testPat(token): valid for a token of a user, and an error
\* for every token when GitHub cannot be reached
TestPatResults(token) == (IF token.live THEN {TRUE} ELSE {}) \cup {FALSE}

\* render(): the page of the current step is built anew; the token field
\* shows state.githubPat, Next is disabled on step 0 for an unverified token,
\* and the buttons of the calls of testPat under way are gone
Render(w) ==
    [w EXCEPT !.field = w.githubPat,
              !.nextDisabled = /\ w.currentStep = 0
                               /\ ~w.patVerified
                               /\ w.githubPat # NoToken,
              !.verifyDisabled = FALSE,
              !.tests = [k \in 1..Len(w.tests) |->
                            [w.tests[k] EXCEPT !.detached = TRUE]]]

\* createWizard(user, detectedLevel, levels)
createWizard ==
    /\ ~wizard.open
    /\ wizard' = Render([ClosedWizard EXCEPT !.open = TRUE])
    /\ UNCHANGED retry
    /\ UNCHANGED <<callers, input, output>>
    /\ UNCHANGED cacheVars
    /\ UNCHANGED fetchVars
    /\ UNCHANGED pipelineVars

\* the input event of the token field
TypeToken ==
    /\ wizard.open
    /\ wizard.currentStep = 0
    /\ \E t \in Typed :
          /\ t # wizard.field
          /\ wizard' = [wizard EXCEPT !.field = t, !.patVerified = FALSE]
    /\ UNCHANGED retry
    /\ UNCHANGED <<callers, input, output>>
    /\ UNCHANGED cacheVars
    /\ UNCHANGED fetchVars
    /\ UNCHANGED pipelineVars

\* a click on Verify Token with a well-formed token in the field: the button
\* is disabled and testPat(token) is awaited
ClickVerify ==
    /\ wizard.open
    /\ wizard.currentStep = 0
    /\ ~wizard.verifyDisabled
    /\ Len(wizard.tests) < MaxVerifies
    /\ validateGithubPat(wizard.field)
    /\ wizard' = [wizard EXCEPT
                     !.verifyDisabled = TRUE,
                     !.tests = Append(@, [token    |-> wizard.field,
                                          st       |-> "awaited",
                                          detached |-> FALSE])]
    /\ UNCHANGED retry
    /\ UNCHANGED <<callers, input, output>>
    /\ UNCHANGED cacheVars
    /\ UNCHANGED fetchVars
    /\ UNCHANGED pipelineVars

\* testPat(token) returns: the button of the click is enabled again, and
\* the state is set from the result
TestPatReturns ==
    /\ \E k \in 1..Len(wizard.tests) :
          /\ wizard.tests[k].st = "awaited"
          /\ \E ok \in TestPatResults(wizard.tests[k].token) :
                wizard' = [wizard EXCEPT
                    !.tests[k].st = "returned",
                    !.verifyDisabled =
                        IF wizard.tests[k].detached THEN @ ELSE FALSE,
                    !.patVerified = ok,
                    !.githubPat = IF ok THEN wizard.tests[k].token ELSE @,
                    !.valid = IF ok THEN @ \cup {wizard.tests[k].token} ELSE @]
    /\ UNCHANGED retry
    /\ UNCHANGED <<callers, input, output>>
    /\ UNCHANGED cacheVars
    /\ UNCHANGED fetchVars
    /\ UNCHANGED pipelineVars

\* collectCurrentStepData(state)
collectCurrentStepData(w) ==
    IF w.currentStep = 0 THEN [w EXCEPT !.githubPat = w.field] ELSE w

\* validateCurrentStep(state)
validateCurrentStep(w) ==
    IF w.currentStep = 0
    THEN w.githubPat # NoToken =>
             validateGithubPat(w.githubPat) /\ w.patVerified
    ELSE TRUE

\* a click on Next
ClickNext ==
    /\ wizard.open
    /\ wizard.currentStep < TOTAL_STEPS - 1
    /\ ~wizard.nextDisabled
    /\ LET w == collectCurrentStepData(wizard)
       IN  wizard' = IF validateCurrentStep(w)
                     THEN Render([w EXCEPT !.currentStep = @ + 1])
                     ELSE w
    /\ UNCHANGED retry
    /\ UNCHANGED <<callers, input, output>>
    /\ UNCHANGED cacheVars
    /\ UNCHANGED fetchVars
    /\ UNCHANGED pipelineVars

\* a click on Back
ClickBack ==
    /\ wizard.open
    /\ wizard.currentStep > 0
    /\ wizard' = Render([collectCurrentStepData(wizard) EXCEPT
                            !.currentStep = @ - 1])
    /\ UNCHANGED retry
    /\ UNCHANGED <<callers, input, output>>
    /\ UNCHANGED cacheVars
    /\ UNCHANGED fetchVars
    /\ UNCHANGED pipelineVars

NextWizard ==
    \/ createWizard
    \/ TypeToken
    \/ ClickVerify
    \/ TestPatReturns
    \/ ClickNext
    \/ ClickBack

SpecWizard == Init /\ [][NextWizard]_vars

(***************************************************************************)
(* Properties.                                                             *)
(***************************************************************************)
\* the reports of the search loop (those of the batches carry `enriching`)
SearchReports == SelectSeq(progress, LAMBDA e : ~IsSome(e.enriching))

\* the number of items of the k-th page received
PageLen(k) ==
    SearchReports[k].fetched - (IF k = 1 THEN 0 ELSE SearchReports[k - 1].fetched)

PageLens == [k \in 1..Len(SearchReports) |-> PageLen(k)]

\* after page k the accumulated count has reached the total of page 1, or
\* page k is short
StopsAfter(k) ==
    \/ SearchReports[k].fetched >= SearchReports[1].total
    \/ PageLen(k) < 100

\* the pages requested so far
PagesRequested == {fetches[k] : k \in 1..Len(fetches)}

Searching == pc = "awaitSearch"

Enriching == pc \in {"awaitBatch", "done"}

\* C1: the search loop stops at the first page after which the accumulated
\* count is >= the total of page 1 or which holds fewer than 100 items: no
\* page before the last received one is such a page, the pages requested are
\* exactly those received plus the one awaited, and once the loop has stopped
\* the last page is such a page and no further page is requested.  For
\* total_count = 250 and pages of 100, 100 and 50 items the pages requested
\* are 1, 2 and 3 and 250 records are returned.
C1_StopsAtFirstFinalPage ==
    LET n == Len(SearchReports) IN
    /\ \A k \in 1..n : k < n => ~StopsAfter(k)
    /\ Searching => PagesRequested = 1..(n + 1)
    /\ Enriching => n >= 1 /\ StopsAfter(n) /\ PagesRequested = 1..n
    /\ (pc = "done" /\ PageLens = <<100, 100, 50>> /\ SearchReports[1].total = 250)
          => PagesRequested = {1, 2, 3} /\ Len(result[1]) = 250

\* C1 witness: the call has returned 250 records after exactly three fetches,
\* of pages 1, 2 and 3, which held 100, 100 and 50 items
C1_Witness ==
    /\ pc = "done"
    /\ PageLens = <<100, 100, 50>>
    /\ SearchReports[1].total = 250
    /\ fetches = <<1, 2, 3>>
    /\ Len(result[1]) = 250

\* C2: a page of fewer than 100 items is the last page requested, also when
\* the accumulated count is below the reported total: after a first page of
\* 40 items with total_count = 300 only page 1 has been requested, and the
\* call returns 40 records.
C2_ShortPageStops ==
    LET n == Len(SearchReports) IN
    /\ \A k \in 1..n : PageLen(k) < 100 => k = n /\ ~Searching /\ PagesRequested = 1..k
    /\ (n >= 1 /\ SearchReports[1] = SearchProgress(40, 300))
          => /\ PagesRequested = {1}
             /\ pc = "done" => Len(result[1]) = 40

\* C2 witness: the call has returned 40 records after one fetch, the total
\* reported being 300
C2_Witness ==
    /\ pc = "done"
    /\ SearchReports = <<SearchProgress(40, 300)>>
    /\ fetches = <<1>>
    /\ Len(result[1]) = 40

\* the fetchWithRateLimit calls that are running or have just settled
Calls == {search} \cup {batch[k].call : k \in 1..Len(batch)}

\* the call's first response is a 403 with remaining exactly 0 and a reset
\* header holding a number
RateLimited403(c) ==
    /\ IsSome(c.first)
    /\ c.first[1].status = 403
    /\ c.first[1].remaining = Some(<<"0">>)
    /\ IsSome(c.first[1].reset)
    /\ IsSome(parseInt(c.first[1].reset[1]))

\* waitMs = reset * 1000 - now + 1000
WaitOf(c) == parseInt(c.first[1].reset[1])[1] * 1000 - c.now + 1000

\* C3: after a 403 with remaining 0 and 0 < waitMs < 120000 the call sleeps
\* waitMs once, fetches once more and returns the second response whatever
\* its status; it never throws a rate-limit error for it.  No call makes
\* more than 2 fetches or more than 1 sleep.
C3_SleepsAndRetriesOnce ==
    \A c \in Calls :
        /\ c.nreq <= 2
        /\ Len(c.sleeps) <= 1
        /\ (RateLimited403(c) /\ 0 < WaitOf(c) /\ WaitOf(c) < 120000)
              => /\ c.sleeps = <<WaitOf(c)>>
                 /\ c.st \in {"sleeping", "inflight", "returned", "thrown"}
                 /\ c.st = "sleeping" => c.nreq = 1
                 /\ c.st \in {"inflight", "returned", "thrown"} => c.nreq = 2
                 /\ c.st = "returned" => IsSome(c.result)
                 /\ c.st = "thrown" => c.error.kind = "network"
        /\ c.nreq = 2 => RateLimited403(c) /\ 0 < WaitOf(c) /\ WaitOf(c) < 120000

\* C3 witness: the search call has slept once and returned its second
\* response, which is a rate-limited 403 again
C3_Witness ==
    /\ search.st = "returned"
    /\ search.nreq = 2
    /\ Len(search.sleeps) = 1
    /\ IsRateLimited(search.result[1])

\* C4: after a 403 with remaining 0 and waitMs <= 0 or waitMs >= 120000 the
\* call has thrown a rate-limit error carrying ceil(waitMs / 1000), without
\* a sleep and without a second fetch.
C4_FailsWithoutWaiting ==
    \A c \in Calls :
        (RateLimited403(c) /\ (WaitOf(c) <= 0 \/ WaitOf(c) >= 120000))
            => /\ c.st = "thrown"
               /\ c.error.kind = "ratelimit"
               /\ c.error.waitSec = Some(-((-WaitOf(c)) \div 1000))
               /\ c.sleeps = <<>>
               /\ c.nreq = 1

\* C4 witness: the search call has thrown for a wait of exactly 120000 ms
C4_Witness ==
    /\ search.st = "thrown"
    /\ RateLimited403(search)
    /\ WaitOf(search) = 120000
    /\ search.error.waitSec = Some(120)

\* C5: a first response that is not a 403, or a 403 whose remaining header
\* is not 0 or whose reset header is absent, is returned as it is after one
\* fetch and no sleep.
C5_OtherResponsesUnchanged ==
    \A c \in Calls :
        (/\ IsSome(c.first)
         /\ ~FetchRejects(c.first[1])
         /\ \/ c.first[1].status # 403
            \/ c.first[1].remaining # Some(<<"0">>)
            \/ c.first[1].reset = None)
            => /\ c.st = "returned"
               /\ c.result = c.first
               /\ c.nreq = 1
               /\ c.sleeps = <<>>

\* C5 witness: the search call has returned a 403 that has a reset header
\* but a remaining header other than 0
C5_Witness ==
    /\ search.st = "returned"
    /\ search.nreq = 1
    /\ search.result[1].status = 403
    /\ search.result[1].remaining = Some(<<"1">>)
    /\ search.result[1].reset = Some(<<"5">>)

\* the search call has returned a response that is not a success
SearchFailed ==
    /\ pc = "awaitSearch"
    /\ search.st = "returned"
    /\ ~(search.result[1].status \in 200..299)

\* C6: when the search call returns a non-success response the call rejects
\* with an error holding the status and the body of that response, returns no
\* list, and makes no step after it: no page request, no detail request.
C6_FailedSearchRejects ==
    /\ [][SearchFailed =>
            /\ pc' = "rejected"
            /\ error'.kind = "search"
            /\ error'.status = search.result[1].status
            /\ error'.text = search.result[1].body.text
            /\ fetches' = fetches
            /\ batch' = <<>>
            /\ result' = None]_vars
    /\ [][pc = "rejected" => pc' = pc /\ fetches' = fetches /\ batch' = batch]_vars
    /\ [](pc = "rejected" => result = None /\ batch = <<>> /\ enriched = <<>>)

\* C6 witness: the call has rejected with the status and body of a failed
\* page after it had accumulated a full page
C6_Witness ==
    /\ pc = "rejected"
    /\ error.kind = "search"
    /\ error.status = 500
    /\ error.text = "server error"
    /\ Len(allItems) = 100
    /\ result = None

\* C7: the enriched records are, in order, those of the hits: the k-th has
\* the title, url and repo of the k-th hit, and the list returned has one
\* record per hit.
C7_OneRecordPerHitInOrder ==
    /\ Len(enriched) <= Len(allItems)
    /\ \A k \in 1..Len(enriched) :
          /\ enriched[k].title = allItems[k].title
          /\ enriched[k].url = allItems[k].html_url
          /\ enriched[k].repo = extractRepo(allItems[k].repository_url)
    /\ pc = "done" => result = Some(enriched) /\ Len(enriched) = Len(allItems)

\* C7 witness: 7 hits of which the detail calls of the 3rd and the 5th
\* failed; the 7th has no detail link
C7_Witness ==
    /\ pc = "done"
    /\ Len(result[1]) = 7
    /\ \A k \in {1, 2, 4, 6} : result[1][k].additions = 10 + k
    /\ \A k \in {3, 5, 7} : result[1][k].additions = 0
    /\ \A k \in 1..7 : result[1][k].title = <<"title", k>>
    /\ result[1][1].repo = <<"o", "/", "a">>
    /\ result[1][2].repo = <<"r", "e", "p", "o", "s", "/", "b">>
    /\ result[1][3].repo = <<"u", "n", "k", "n", "o", "w", "n">>

\* the settled enrichPR calls of the running batch
Settled == {k \in 1..Len(batch) : batch[k].done}

\* the merge timestamp of the search hit
HitMergedAt(item) ==
    IF IsSome(item.pull_request) THEN item.pull_request[1].merged_at ELSE None

\* the record of a hit whose detail call did not succeed
KeepsDefaults(slot) ==
    /\ slot.pr.additions = 0
    /\ slot.pr.deletions = 0
    /\ slot.pr.mergedAt = HitMergedAt(slot.item)

\* enrichment never makes the call reject
NoRejectWhileEnriching ==
    pc = "rejected" => i = 0 /\ enriched = <<>> /\ batch = <<>>

\* a step of one detail call leaves the other records alone
OnlyOneRecordChanges ==
    (pc = "awaitBatch" /\ pc' = pc /\ i' = i)
        => /\ enriched' = enriched
           /\ Len(batch') = Len(batch)
           /\ Cardinality({k \in 1..Len(batch) : batch'[k] # batch[k]}) <= 1

\* C8 as stated: a hit whose detail call succeeded takes additions,
\* deletions and merged_at from the detail response; a hit whose detail call
\* failed keeps zero counts and the merge timestamp of the search hit.
C8_AsStated ==
    \A k \in Settled :
        IF IsSome(batch[k].detail)
        THEN /\ batch[k].pr.additions = OrZero(batch[k].detail[1].additions)
             /\ batch[k].pr.deletions = OrZero(batch[k].detail[1].deletions)
             /\ batch[k].pr.mergedAt = batch[k].detail[1].merged_at
        ELSE KeepsDefaults(batch[k])

\* C8 amended: as stated, but merged_at is taken from the detail response
\* only when that response has one; otherwise the record keeps the merge
\* timestamp of the search hit.  No detail outcome makes the call reject,
\* and the step of one detail call changes no other record.
C8_DetailIsBestEffort ==
    /\ [](\A k \in Settled :
            IF IsSome(batch[k].detail)
            THEN /\ batch[k].pr.additions = OrZero(batch[k].detail[1].additions)
                 /\ batch[k].pr.deletions = OrZero(batch[k].detail[1].deletions)
                 /\ batch[k].pr.mergedAt =
                        IF IsSome(batch[k].detail[1].merged_at)
                        THEN batch[k].detail[1].merged_at
                        ELSE HitMergedAt(batch[k].item)
            ELSE KeepsDefaults(batch[k]))
    /\ []NoRejectWhileEnriching
    /\ [][OnlyOneRecordChanges]_vars

\* C8 witness: in one batch a detail call has failed, one has given all three
\* fields, and one has succeeded without a merged_at, its record keeping the
\* timestamp of the search hit
C8_Witness ==
    /\ pc = "awaitBatch"
    /\ \E k \in Settled :
          /\ IsSome(batch[k].item.pull_request)
          /\ ~IsSome(batch[k].detail)
          /\ IsSome(batch[k].pr.mergedAt)
    /\ \E k \in Settled :
          /\ IsSome(batch[k].detail)
          /\ batch[k].pr.additions > 0
          /\ batch[k].pr.mergedAt = batch[k].detail[1].merged_at
    /\ \E k \in Settled :
          /\ IsSome(batch[k].detail)
          /\ ~IsSome(batch[k].detail[1].merged_at)
          /\ IsSome(batch[k].pr.mergedAt)

\* the number of detail requests awaiting their response
InFlight == Cardinality({k \in 1..Len(batch) : batch[k].call.st = "inflight"})

\* C9: at most 5 detail requests are in flight; the calls running are those
\* of the items of the current batch, every earlier item being enriched; and
\* a batch is left only when each of its calls has settled.
C9_BoundedBatches ==
    /\ [](/\ InFlight <= 5
          /\ Len(batch) <= 5
          /\ pc = "awaitBatch" =>
                /\ Len(enriched) = i
                /\ \A k \in 1..Len(batch) : batch[k].item = allItems[i + k]
          /\ pc # "awaitBatch" => batch = <<>>)
    /\ [][(batch # <<>> /\ (i' # i \/ pc' # pc))
            => \A k \in 1..Len(batch) : batch[k].done]_vars

\* C9 witness: the five calls of the first batch have settled and the
\* second batch is running, a detail request of it in flight
C9_Witness ==
    /\ pc = "awaitBatch"
    /\ i = 5
    /\ InFlight = 1
    /\ Len(enriched) = 5

\* the bound is attained: five detail requests are in flight
FiveInFlight == InFlight = 5

\* the search call has returned a page
PageReceived ==
    /\ pc = "awaitSearch"
    /\ search.st = "returned"
    /\ search.result[1].status \in 200..299

\* C10: the step that takes a search page makes exactly one report, whose
\* fetched is the number of items accumulated and whose total is the
\* total_count of page 1, whatever total_count the page itself reports; no
\* other step of the search loop reports.
C10_OneReportPerPage ==
    /\ [][PageReceived =>
            LET data == search.result[1].body
                last == progress'[Len(progress')]
            IN  /\ Len(progress') = Len(progress) + 1
                /\ SubSeq(progress', 1, Len(progress)) = progress
                /\ last.enriching = None
                /\ last.fetched = Len(allItems) + Len(data.items)
                /\ last.total = IF progress = <<>> THEN data.total_count
                                ELSE progress[1].total]_vars
    /\ [][(pc = "awaitSearch" /\ ~PageReceived) => progress' = progress]_vars

\* C10 witness: three pages reported as 100, 200 and 250 of 250, the second
\* page having itself reported another total_count
C10_Witness ==
    /\ Len(SearchReports) = 3
    /\ SearchReports = <<SearchProgress(100, 250), SearchProgress(200, 250),
                         SearchProgress(250, 250)>>

\* the reports of the batches
EnrichReports == SelectSeq(progress, LAMBDA e : IsSome(e.enriching))

\* C11: every report of a batch has fetched equal to total, and the k-th of
\* them has enriching equal to the number of items enriched after k batches.
C11_BatchReportsEqualCounts ==
    \A k \in 1..Len(EnrichReports) :
        /\ EnrichReports[k].fetched = EnrichReports[k].total
        /\ EnrichReports[k].enriching =
              Some(IF batchSize * k < Len(allItems) THEN batchSize * k
                   ELSE Len(allItems))

(***************************************************************************)
(* Properties of runAnalysisPipeline.                                      *)
(***************************************************************************)
RECURSIVE Concat(_)
Concat(texts) == IF texts = <<>> THEN <<>> ELSE Head(texts) \o Concat(Tail(texts))

\* the reports of the chunks of stage 1 or 2, and the text they carried
ChunkReports(step) ==
    SelectSeq(stages, LAMBDA r : r.step = step /\ IsSome(r.detail))

Streamed(step) ==
    Concat([k \in 1..Len(ChunkReports(step)) |-> ChunkReports(step)[k].detail[1]])

\* the reports of stage 3; the cluster the j-th of them is made for is the
\* number of announcements (reports without detail) up to it
QuestionReports == SelectSeq(stages, LAMBDA r : r.step = 3)

Announced(j) ==
    Cardinality({m \in 1..j : ~IsSome(QuestionReports[m].detail)})

\* the text streamed for the questions of the c-th cluster
StreamedFor(c) ==
    LET js == SelectSeq([j \in 1..Len(QuestionReports) |-> j],
                        LAMBDA j : /\ IsSome(QuestionReports[j].detail)
                                   /\ Announced(j) = c)
    IN  Concat([k \in 1..Len(js) |-> QuestionReports[js[k]].detail[1]])

\* the k-th generation call has returned
Completed(k) ==
    /\ k <= Len(requests)
    /\ ~requests[k].open
    /\ Len(requests) > k \/ failure = "none"

\* the generation requests that are awaited
OpenRequests == {k \in 1..Len(requests) : requests[k].open}

\* C12: a request is issued only when every earlier request's stream has
\* ended; the second request is the one of stage 2 and is made with the
\* clusters parsed from the whole stage-1 text, every later one is of stage 3
\* and is made with the mappings parsed from the whole stage-2 text; the steps
\* reported start at 1 and never decrease.
C12_StagesInSequence ==
    /\ \A k \in 1..Len(requests) :
          /\ requests[k].stage = (IF k > 2 THEN 3 ELSE k)
          /\ k < Len(requests) => ~requests[k].open
    /\ Len(requests) >= 2 => clusters = ClustersOf(parseJSON(Streamed(1)), prs)
    /\ Len(requests) >= 3 => mappings = parseJSON(Streamed(2))
    /\ \A j \in 1..Len(stages) :
          stages[j].step >= (IF j = 1 THEN 1 ELSE stages[j - 1].step)
    /\ stages # <<>> => stages[1].step = 1

C12_Witness ==
    /\ apc = "resolved"
    /\ Len(requests) >= 4
    /\ Len(ChunkReports(1)) > 1
    /\ Len(ChunkReports(2)) > 1

\* C13: a run with zero PRs issues no generation request and never rejects;
\* past its first step it is only saving, and when it has resolved the
\* assessment has no cluster, no mapping and no question set.
C13_NoPRsNoRequest ==
    prs = <<>> =>
        /\ requests = <<>>
        /\ apc \in {"start", "awaitFind", "awaitWrite", "resolved"}
        /\ apc # "start" =>
              /\ IsSome(assessment)
              /\ assessment[1].clusters = <<>>
              /\ assessment[1].mappings = Array(<<>>)
              /\ assessment[1].questions = <<>>

C13_Witness == prs = <<>> /\ apc = "resolved" /\ Len(stages) = 2

\* the requests of a stage
RequestsOf(stage) == SelectSeq(requests, LAMBDA q : q.stage = stage)

\* C14: a run on a non-empty PR list never issues more than one clustering
\* request, one mapping request and one question request per cluster, and none
\* but the clustering request when clustering yields no cluster; a run that has
\* come to the end of stage 3 has issued exactly 1 request for 0 clusters and
\* k + 2 for k >= 1 clusters.
C14_RequestCount ==
    prs # <<>> /\ apc # "start" =>
        /\ Len(RequestsOf(1)) = 1
        /\ Len(RequestsOf(2)) <= 1
        /\ Len(RequestsOf(3)) <= Len(clusters)
        /\ Completed(1) /\ clusters = <<>> => Len(requests) = 1
        /\ apc \in {"awaitFind", "awaitWrite", "resolved"} =>
              Len(requests) = (IF clusters = <<>> THEN 1 ELSE Len(clusters) + 2)

C14_Witness ==
    /\ apc = "resolved"
    /\ Len(clusters) = 3
    /\ Len(requests) = 5

C14_WitnessNoCluster ==
    /\ apc = "resolved"
    /\ prs # <<>>
    /\ clusters = <<>>
    /\ Len(requests) = 1

\* C15: at most one question request is awaited at any time, the j-th
\* question request is the one for the j-th cluster, and every report of
\* stage 3 made for the c-th of n clusters, the announcement and the chunks,
\* has the label "Generating questions... (c/n)", with c in 1..n; the reports
\* with step 3 are those that have neither the clustering nor the mapping
\* label.
C15_OneClusterAtATime ==
    /\ Cardinality(OpenRequests) <= 1
    /\ \A j \in 1..Len(RequestsOf(3)) : RequestsOf(3)[j].cluster = j
    /\ \A j \in 1..Len(QuestionReports) :
          /\ Announced(j) \in 1..Len(clusters)
          /\ QuestionReports[j].label =
                "Generating questions... (" \o ToString(Announced(j)) \o "/"
                   \o ToString(Len(clusters)) \o ")"
    /\ \A j \in 1..Len(stages) :
          stages[j].step = 3 <=>
             stages[j].label \notin {ClusteringLabel, MappingLabel}

C15_Witness ==
    /\ Len(RequestsOf(3)) = 3
    /\ \E j \in 1..Len(QuestionReports) :
          /\ IsSome(QuestionReports[j].detail)
          /\ Announced(j) = 3

\* C16: the k-th question returned for a cluster has the id made of the
\* cluster's id, "-q" and k, whatever id the model proposed for it, and the
\* questions returned are those of the model's list, one for one.
C16_QuestionIds ==
    \A c \in 1..Len(allQuestions) :
        LET proposed == parseJSON(StreamedFor(c)).items
            returned == allQuestions[c].questions
        IN  /\ Len(returned) = Len(proposed)
            /\ \A k \in 1..Len(returned) :
                  returned[k].id =
                     IdText(clusters[c].id) \o "-q" \o ToString(k)

C16_Witness ==
    \E c \in 1..Len(allQuestions) :
        /\ Len(allQuestions[c].questions) = 2
        /\ allQuestions[c].questions[1].id = "c1-q1"
        /\ allQuestions[c].questions[2].id = "c1-q2"
        /\ parseJSON(StreamedFor(c)).items[1].id = Some("q7")

C16_WitnessNoId ==
    \E c \in 1..Len(allQuestions) :
        /\ Len(allQuestions[c].questions) = 1
        /\ allQuestions[c].questions[1].id = "undefined-q1"

\* the array the stage-1 response was parsed to
ParsedClusters == parseJSON(Streamed(1))

\* the indices of a list that prs has
InRange(indices) == SelectSeq(indices, LAMBDA j : j >= 0 /\ j < Len(prs))

\* the PRs of a list, as a set
PRSet(list) == {list[k] : k \in 1..Len(list)}

\* C17: when clusterPRsIntoProjects has returned there is one cluster per
\* element of the parsed array, and its prs are the PRs at the element's
\* in-range indices, in the listed order; an index out of range makes no
\* call fail; the response [[0,2],[1,3,4]] over 5 PRs gives 2 clusters whose
\* lists together hold each of the 5 PRs once.
C17_IndicesResolved ==
    /\ Completed(1) =>
          /\ Len(clusters) = Len(ParsedClusters.items)
          /\ \A k \in 1..Len(clusters) :
                LET valid == InRange(OrEmpty(ParsedClusters.items[k].prIndices))
                IN  clusters[k].prs = [m \in 1..Len(valid) |-> prs[valid[m] + 1]]
          /\ ParsedClusters = TwoProjects /\ Len(prs) = 5 =>
                /\ Len(clusters) = 2
                /\ Len(clusters[1].prs \o clusters[2].prs) = 5
                /\ PRSet(clusters[1].prs \o clusters[2].prs) = PRSet(prs)
    /\ Len(requests) = 1 /\ failure = "TypeError" => ~IsArray(ParsedClusters)

C17_Witness ==
    /\ Completed(1)
    /\ ParsedClusters = TwoProjects
    /\ Len(prs) = 5

C17_WitnessOutOfRange ==
    /\ Completed(1)
    /\ ParsedClusters = Messy
    /\ Len(prs) = 3
    /\ clusters[1].prs = <<prs[2], prs[2]>>

\* C18: when clusterPRsIntoProjects has returned, no returned cluster has an
\* empty prs list.
C18_NoEmptyCluster ==
    Completed(1) => \A k \in 1..Len(clusters) : clusters[k].prs # <<>>

\* the places of the returned clusters' prs lists, and the number of them
\* that hold the p-th input PR
Places ==
    UNION {{<<k, m>> : m \in 1..Len(clusters[k].prs)} : k \in 1..Len(clusters)}

Occurrences(p) ==
    Cardinality({s \in Places : clusters[s[1]].prs[s[2]] = prs[p]})

\* the places of the response's prIndices lists, and the number of them that
\* hold the index j
ListedPlaces ==
    UNION {{<<k, m>> : m \in 1..Len(OrEmpty(ParsedClusters.items[k].prIndices))} :
              k \in 1..Len(ParsedClusters.items)}

Listed(j) ==
    Cardinality({s \in ListedPlaces :
                    ParsedClusters.items[s[1]].prIndices[1][s[2]] = j})

\* C19 as stated: when clusterPRsIntoProjects has returned, every input PR
\* is in exactly one place of the returned clusters.
C19_AsStated ==
    Completed(1) => \A p \in 1..Len(prs) : Occurrences(p) = 1

\* C19: when clusterPRsIntoProjects has returned, every PR of a returned
\* cluster is an input PR, and an input PR is in as many places of the
\* returned clusters as the response lists its index; so it is in exactly one
\* cluster when the response lists every index exactly once.
C19_AssignedAsListed ==
    Completed(1) =>
        /\ \A s \in Places : clusters[s[1]].prs[s[2]] \in PRSet(prs)
        /\ \A p \in 1..Len(prs) : Occurrences(p) = Listed(p - 1)

C19_Witness ==
    /\ Completed(1)
    /\ Len(prs) = 5
    /\ \A p \in 1..Len(prs) : Listed(p - 1) = 1 /\ Occurrences(p) = 1

\* C20: a run that has resolved resolved with the assessment assembled from
\* the clusters, mappings and question sets of the stages, narrative null,
\* after every store call it made has ended, well or not; once the stages
\* are complete and saveAssessment is called the run never rejects.
C20_ResolvesWithAssessment ==
    /\ apc = "resolved" =>
          /\ \E t \in Times :
                assessment =
                   Some(Assessment(userEmail, clusters, mappings, allQuestions, t))
          /\ Len(allQuestions) = Len(clusters)
          /\ storeCalls # <<>>
          /\ \A k \in 1..Len(storeCalls) : storeCalls[k].st # "pending"
          /\ failure = "none"
    /\ storeCalls # <<>> => apc \in {"awaitFind", "awaitWrite", "resolved"}
    /\ apc = "rejected" => failure \in {"generation", "TypeError"}

C20_Witness ==
    /\ apc = "resolved"
    /\ Len(storeCalls) = 2
    /\ storeCalls[2].st = "failed"
    /\ clusters # <<>>

C20_WitnessFindFails ==
    /\ apc = "resolved"
    /\ Len(storeCalls) = 1
    /\ storeCalls[1].st = "failed"

C20_WitnessSaved ==
    /\ apc = "resolved"
    /\ storeCalls[Len(storeCalls)] = [op |-> "update", st |-> "ok"]
    /\ store[2].doc = assessment[1]

(***************************************************************************)
(* Properties of saveAssessment and loadAssessment.                        *)
(***************************************************************************)
\* no call was made while another was not over
Sequential == \A k \in 1..Len(callers) : ~callers[k].overlaps

\* no call of the store has raised
Working == \A k \in 1..Len(callers) : ~callers[k].failed

\* the saveAssessment calls for u that have returned
SavedFor(u) ==
    SelectSeq(callers,
              LAMBDA c : c.op = "save" /\ c.userEmail = u /\ ~Pending(c))

\* C21: as long as the calls run one after another on a working store that
\* was empty, the store holds no document of a userEmail no call has saved,
\* and for every other userEmail exactly one, equal in every field to the
\* assessment of the last call that has returned for it.
C21_OneDocumentPerUser ==
    Sequential /\ Working =>
        \A u \in Emails :
            LET saved == SavedFor(u)
                found == Matches(store, u)
            IN  IF saved = <<>> THEN found = <<>>
                ELSE /\ Len(found) = 1
                     /\ found[1].doc = saved[Len(saved)].doc[1]

C21_Witness ==
    /\ Sequential
    /\ Working
    /\ \A k \in 1..Len(callers) : ~Pending(callers[k])
    /\ Len(SavedFor("ann@x.io")) = 2
    /\ Len(SavedFor("bob@x.io")) = 1
    /\ Len(store) = 2

\* the saveAssessment calls for u that found no document and have written
CreatorsFor(u) ==
    {k \in 1..Len(callers) :
        /\ callers[k].op = "save"
        /\ callers[k].userEmail = u
        /\ callers[k].wroteAt > 0
        /\ callers[k].existing = <<>>}

\* both finds were answered before either write was done
FindsBeforeWrites(j, k) ==
    /\ j # k
    /\ callers[j].foundAt > 0 /\ callers[k].foundAt > 0
    /\ callers[j].wroteAt > callers[k].foundAt
    /\ callers[k].wroteAt > callers[j].foundAt

\* C22: nothing between the find and the write of saveAssessment looks at
\* the store again: a userEmail has one document for every call that found
\* none and has written, so two calls that both found none leave two, and the
\* write of a call that found a document replaces it whatever was written in
\* between.
C22_WritesFollowOwnFind ==
    /\ \A u \in Emails : Len(Matches(store, u)) = Cardinality(CreatorsFor(u))
    /\ \A k \in 1..Len(callers) :
          callers[k].wroteAt > 0 /\ callers[k].wroteAt = Answers(callers) - 1 =>
              \E n \in 1..Len(store) :
                  /\ store[n].doc = callers[k].doc[1]
                  /\ callers[k].existing # <<>> =>
                        store[n].id = callers[k].existing[1].id

\* two overlapping calls for one userEmail have left two documents
C22_Witness ==
    \E j, k \in 1..Len(callers) :
        /\ FindsBeforeWrites(j, k)
        /\ callers[j].userEmail = callers[k].userEmail
        /\ Len(Matches(store, callers[j].userEmail)) = 2

\* of two overlapping calls for one userEmail, the one whose find was
\* answered first has written last: the other's content is gone
C22_WitnessLostUpdate ==
    \E j, k \in 1..Len(callers) :
        /\ FindsBeforeWrites(j, k)
        /\ callers[j].userEmail = callers[k].userEmail
        /\ callers[j].existing # <<>> /\ callers[k].existing # <<>>
        /\ callers[j].foundAt < callers[k].foundAt
        /\ callers[j].wroteAt > callers[k].wroteAt
        /\ Matches(store, callers[j].userEmail) =
              <<[id |-> callers[j].existing[1].id, doc |-> callers[j].doc[1]]>>

\* the positions of the documents of u in the store
PositionsOf(u) == {n \in 1..Len(store) : store[n].doc.userEmail = u}

\* a step of the k-th call
CallerSteps(k) == k > Len(callers) \/ callers'[k] # callers[k]

\* C23: no step of a loadAssessment call changes the store; the call returns
\* null when its find raises and when the store holds no document of the
\* userEmail at the time find answers, and the first of the store's
\* documents of the userEmail otherwise.
C23_LoadReturnsFirstMatch ==
    [][\A k \in 1..Len(callers') :
          callers'[k].op = "load" /\ CallerSteps(k) =>
              /\ store' = store
              /\ callers'[k].st = "returned" =>
                    callers'[k].result =
                       (IF callers'[k].failed \/ PositionsOf(callers'[k].userEmail) = {}
                        THEN None
                        ELSE Some(store[CHOOSE n \in PositionsOf(callers'[k].userEmail) :
                                           \A m \in PositionsOf(callers'[k].userEmail) :
                                               n <= m]))]_vars

\* a call has returned the first of two documents of its userEmail
C23_Witness ==
    \E k \in 1..Len(callers) :
        /\ callers[k].op = "load"
        /\ Len(Matches(store, callers[k].userEmail)) = 2
        /\ callers[k].result = Some(Matches(store, callers[k].userEmail)[1])

C23_WitnessNone ==
    \E k \in 1..Len(callers) :
        /\ callers[k].op = "load"
        /\ callers[k].st = "returned"
        /\ ~callers[k].failed
        /\ callers[k].result = None
        /\ store # <<>>

C23_WitnessFindFails ==
    \E k \in 1..Len(callers) :
        /\ callers[k].op = "load"
        /\ callers[k].failed
        /\ callers[k].result = None
        /\ Matches(store, callers[k].userEmail) # <<>>

(***************************************************************************)
(* Properties of parseJSON.                                                *)
(***************************************************************************)
\* v between a leading fence line with the tag and a trailing fence line
Wrapped(tag, v) == <<Fence>> \o tag \o <<Space, Doc(v), Space, Fence>>

\* C24: parseJSON returns v for the text of a JSON value v alone and for
\* that text between a leading fence line, bare or with a language tag, and a
\* trailing fence line; for a text without a JSON value, or with words or a
\* second value next to it, it returns an empty array.
C24_FencesAreStripped ==
    output # <<>> =>
        /\ \A v \in JsonValues :
              input \in {<<Doc(v)>>, Wrapped(<<>>, v), Wrapped(<<JsonTag>>, v),
                         Wrapped(<<JsTag>>, v)}
                 => output = Some(v)
        /\ (\E k \in 1..Len(input) : input[k].k = "prose")
              \/ Cardinality({k \in 1..Len(input) : input[k].k = "doc"}) # 1
                 => output = Some(Array(<<>>))

(***************************************************************************)
(* Properties of runAnalysisPipeline: what the model's text does to it.    *)
(***************************************************************************)
\* the stream of the k-th generation call has ended
Ended(k) ==
    /\ k <= Len(requests)
    /\ ~requests[k].open
    /\ k < Len(requests) \/ failure # "generation"

\* JSON.parse throws on the text as parseJSON cleans it
Unparseable(t) == JSONParse(Cleaned(t)) = None

\* the run is past its generation stages
Saving == apc \in {"awaitFind", "awaitWrite", "resolved"}

\* C25: text that does not parse never makes the run reject.  When the
\* stage-1 text does not parse there is no cluster and no further request, and
\* the run goes on to save an assessment without clusters, mappings and
\* questions.  When the stage-2 text does not parse the mappings are empty and
\* the question requests are made, each with an empty category list, one for
\* every cluster unless a later call fails.  When the text for the c-th
\* cluster does not parse its question set has no question and the run goes
\* on to the next cluster, or to saving after the last.
C25_MalformedTextDegrades ==
    /\ Ended(1) /\ Unparseable(Streamed(1)) =>
          /\ clusters = <<>>
          /\ Len(requests) = 1
          /\ Saving
          /\ assessment[1].clusters = <<>>
          /\ assessment[1].mappings = Array(<<>>)
          /\ assessment[1].questions = <<>>
    /\ Ended(2) /\ Unparseable(Streamed(2)) =>
          /\ mappings = Array(<<>>)
          /\ Len(requests) >= 3
          /\ \A j \in 1..Len(RequestsOf(3)) : RequestsOf(3)[j].categories = <<>>
          /\ Saving => Len(RequestsOf(3)) = Len(clusters)
    /\ \A c \in 1..Len(clusters) :
          Ended(c + 2) /\ Unparseable(StreamedFor(c)) =>
              /\ Len(allQuestions) >= c
              /\ allQuestions[c] = [clusterId |-> clusters[c].id, questions |-> <<>>]
              /\ IF c < Len(clusters) THEN Len(requests) >= c + 3 ELSE Saving

C25_Witness ==
    /\ apc = "resolved"
    /\ Len(clusters) >= 2
    /\ Unparseable(Streamed(2))
    /\ Unparseable(StreamedFor(1))
    /\ ~Unparseable(StreamedFor(2))
    /\ allQuestions[2].questions # <<>>

C25_WitnessNoClusters ==
    /\ apc = "resolved"
    /\ Unparseable(Streamed(1))
    /\ Len(ChunkReports(1)) > 0

\* ---- the local cache of PR data ----------------------------------------

\* the age up to which a snapshot is fresh, in milliseconds
FreshFor == STALE_HOURS * MsPerHour

\* the snapshot held for the user u is fresh at the instant now and is of
\* the requested range
Usable(u, now, periodStart, periodEnd) ==
    /\ IsSome(localStorage[u])
    /\ now - Parse(localStorage[u][1]).fetchedAt <= FreshFor
    /\ Parse(localStorage[u][1]).dateRange.start = periodStart
    /\ Parse(localStorage[u][1]).dateRange.end = periodEnd

\* C26: a call of getCachedPRData returns the stored snapshot if and only if
\* one exists for the user, its age is at most 24 hours and its date range
\* is string-equal to the requested one; in every other case it returns null
C26_FreshMatchingSnapshot ==
    [][cached' # cached =>
          LET q == cached'[1]
          IN  /\ q.now = clock
              /\ IF Usable(q.email, clock, q.start, q.end)
                 THEN q.result = Some(Parse(localStorage[q.email][1]))
                 ELSE q.result = None]_vars

\* a snapshot of exactly 24 hours is returned
C26_Witness ==
    /\ IsSome(cached)
    /\ IsSome(cached[1].result)
    /\ cached[1].now - cached[1].result[1].fetchedAt = 24 * MsPerHour

\* a snapshot of 24 hours and 1 second of the requested range is not
C26_WitnessStale ==
    /\ IsSome(cached)
    /\ cached[1].result = None
    /\ cached[1].now = clock
    /\ IsSome(localStorage[cached[1].email])
    /\ clock - Parse(localStorage[cached[1].email][1]).fetchedAt
           = 24 * MsPerHour + 1000
    /\ Parse(localStorage[cached[1].email][1]).dateRange
           = [start |-> cached[1].start, end |-> cached[1].end]

\* a fresh snapshot whose start is the same day written differently is not
C26_WitnessOtherRange ==
    /\ IsSome(cached)
    /\ cached[1].result = None
    /\ cached[1].now = clock
    /\ IsSome(localStorage[cached[1].email])
    /\ clock = Parse(localStorage[cached[1].email][1]).fetchedAt
    /\ Parse(localStorage[cached[1].email][1]).dateRange.start = "2024-01-01"
    /\ cached[1].start = "2024-1-1"
    /\ Parse(localStorage[cached[1].email][1]).dateRange.end = cached[1].end

\* no snapshot of the user, while another user has one
C26_WitnessNoItem ==
    /\ IsSome(cached)
    /\ cached[1].result = None
    /\ ~IsSome(localStorage[cached[1].email])
    /\ \E u \in Emails : IsSome(localStorage[u])

\* the snapshot of a durable document
SnapshotOf(doc) ==
    [prs |-> doc.prs, fetchedAt |-> doc.fetchedAt, dateRange |-> doc.dateRange]

\* the storePRData calls made for the user u, in order
StoresFor(u) == {k \in 1..Len(durable) : durable[k].userEmail = u}

LastStoreFor(u) == CHOOSE k \in StoresFor(u) : \A j \in StoresFor(u) : j <= k

\* C27: from the moment the durable write of a storePRData call is started,
\* and whatever becomes of it, the local cache holds the snapshot of the
\* user's latest call, and getCachedPRData with the range of that call
\* returns it while it is fresh
C27_CacheHoldsNewSnapshot ==
    \A u \in Emails :
        StoresFor(u) # {} =>
            LET data == SnapshotOf(durable[LastStoreFor(u)].doc)
            IN  /\ localStorage[u] = Some(Stringify(data))
                /\ clock - data.fetchedAt <= FreshFor =>
                       getCachedPRData(localStorage[u], clock,
                                       data.dateRange.start,
                                       data.dateRange.end) = Some(data)

\* the durable write of the latest call failed, and the snapshot was read
\* back afterwards
C27_Witness ==
    \E u \in Emails :
        /\ StoresFor(u) # {}
        /\ durable[LastStoreFor(u)].st = "failed"
        /\ IsSome(cached)
        /\ cached[1].email = u
        /\ cached[1].result = Some(SnapshotOf(durable[LastStoreFor(u)].doc))

\* the find of the latest call has not answered, and the snapshot was read
\* back
C27_WitnessNoAnswer ==
    \E u \in Emails :
        /\ StoresFor(u) # {}
        /\ durable[LastStoreFor(u)].st = "find"
        /\ IsSome(cached)
        /\ cached[1].email = u
        /\ cached[1].now > durable[LastStoreFor(u)].doc.fetchedAt
        /\ cached[1].result = Some(SnapshotOf(durable[LastStoreFor(u)].doc))

\* a second call for the same user replaced the snapshot of the first while
\* the durable write of the first was still under way
C27_WitnessReplaced ==
    \E u \in Emails :
        /\ Cardinality(StoresFor(u)) > 1
        /\ \E k \in StoresFor(u) : k # LastStoreFor(u) /\ durable[k].st = "write"
        /\ durable[LastStoreFor(u)].st = "done"

\* ---- what the model's answers put into the assessment ------------------

\* the elements of a list
Elements(list) == {list[n] : n \in 1..Len(list)}

\* the categoryIds of the mappings of an assessment
CategoryIdsOf(maps) ==
    UNION {{c.categoryId : c \in Elements(OrEmpty(maps.items[j].categories))} :
              j \in 1..Len(maps.items)}

\* C28: every categoryId in the mappings of the assessment a run returns is
\* the id of a category of getAllCategories(level)
C28_CategoryIdsInRubric ==
    apc = "resolved" /\ IsSome(assessment) =>
        CategoryIdsOf(assessment[1].mappings) \subseteq
            Elements(getAllCategories(level))

\* ---- the identity of the records of fetchMergedPRs ---------------------

\* C29: the list fetchMergedPRs returns holds no two records with the same
\* url, whatever pages the search endpoint has served
C29_UrlsDistinct ==
    IsSome(result) =>
        \A j, k \in 1..Len(result[1]) :
            j # k => result[1][j].url # result[1][k].url

\* C30: the ids of the clusters of the assessment a run returns are pairwise
\* distinct
C30_ClusterIdsDistinct ==
    apc = "resolved" /\ IsSome(assessment) =>
        \A j, k \in 1..Len(assessment[1].clusters) :
            j # k => assessment[1].clusters[j].id # assessment[1].clusters[k].id

\* ---- the stream of one generation call ---------------------------------

\* the texts of the first n chunks of the stream that is read
DeltasRead(n) == [k \in 1..n |-> Delta(gen.chunks[k])]

\* the callbacks made since the generation call was started
CallbacksOfCall == SubSeq(stages, Len(stages) - gen.read + 1, Len(stages))

\* while the stream is read: one callback for each chunk consumed, with the
\* chunk's text and in the order of arrival, after the report that announced
\* the call, and the text collected is what these chunks carried, in order
OneCallbackPerChunk ==
    /\ gen.read < Len(stages)
    /\ ~IsSome(stages[Len(stages) - gen.read].detail)
    /\ \A n \in 1..gen.read : CallbacksOfCall[n].detail = Some(DeltasRead(n)[n])
    /\ gen.fullResponse = Concat(DeltasRead(gen.read))

\* the stream has ended and the call returns
CallReturns ==
    /\ gen.st = "streaming"
    /\ gen.read = Len(gen.chunks)
    /\ gen'.st # "streaming"
    /\ failure' = "none"

\* C31: within a generation call every chunk consumed has caused exactly one
\* progress callback with its text, before the next chunk is consumed and in
\* arrival order, and what is parsed at the end of the stream is the
\* concatenation of the texts of all chunks in order
C31_ChunksReportedAndParsed ==
    [][/\ gen'.st = "streaming" => OneCallbackPerChunk'
       /\ CallReturns =>
             LET parsed == parseJSON(Concat(DeltasRead(Len(gen.chunks))))
             IN  CASE gen.stage = 1 -> clusters' = ClustersOf(parsed, prs)
                   [] gen.stage = 2 -> mappings' = parsed
                   [] OTHER ->
                        allQuestions' =
                            Append(allQuestions,
                                   QuestionsOf(clusters[ci + 1], parsed))]_vars

\* a stream of three chunks, the second without content, has been read to
\* its end
C31_Witness ==
    /\ gen.st = "streaming"
    /\ Len(gen.chunks) = 3
    /\ gen.read = 3
    /\ ~IsSome(gen.chunks[2])
    /\ CallbacksOfCall[2].detail = Some(<<>>)

\* clusters were parsed from a text that came in three chunks
C31_WitnessParsed ==
    /\ Len(ChunkReports(1)) = 3
    /\ clusters # <<>>
    /\ Completed(1)

\* ---- fetchWithRetry ----------------------------------------------------

\* a header value that is missing or empty
Absent(h) == ~IsSome(h) \/ h[1] = <<>>

\* a header value that is a number of seconds
Seconds(h) == IsSome(h) /\ h[1] # <<>> /\ \A k \in 1..Len(h[1]) : IsDigit(h[1][k])

SecondsOf(h) == DigitsValue(h[1], Len(h[1]))

AtMost(ms, cap) == IF ms > cap THEN cap ELSE ms

\* the sleep the claim names for the 403 response res received at now, in
\* ms; None for a header value that is no number of seconds (the code hands
\* NaN to setTimeout, which fires at once)
NamedSleep(res, now) ==
    IF Seconds(res.retryAfter)
    THEN Some(AtMost(SecondsOf(res.retryAfter) * 1000, 120 * 1000))
    ELSE IF Absent(res.retryAfter) /\ Seconds(res.reset)
    THEN LET left == SecondsOf(res.reset) - (now \div 1000)
         IN  Some(AtMost((IF left < 0 THEN 0 ELSE left) * 1000, 120 * 1000))
    ELSE IF Absent(res.retryAfter) /\ Absent(res.reset) THEN Some(60 * 1000)
    ELSE None

\* C32: a call of fetchWithRetry issues at most 3 requests, every request
\* after the first follows a sleep that follows a 403 response, the sleep is
\* Retry-After seconds, else the time until X-RateLimit-Reset, else 60 s, and
\* never more than 120 s, and the response of the third request is returned
\* whatever its status
C32_ThreeRequestsAtMost ==
    [][/\ retry'.requests <= 3
       /\ retry'.sleeps <= 2
       /\ retry.requests > 0 /\ retry'.requests # retry.requests =>
             /\ retry.st = "sleeping"
             /\ retry.res[1].status = 403
             /\ retry'.requests = retry.requests + 1
       /\ retry.st = "inflight" /\ retry'.st = "sleeping" =>
             /\ retry'.res[1].status = 403
             /\ retry'.waitMs = NamedSleep(retry'.res[1], retry'.now)
             /\ IsSome(retry'.waitMs) => retry'.waitMs[1] <= 120 * 1000
       /\ retry.st = "inflight" /\ retry.requests = 3 /\ retry'.st # "thrown" =>
             /\ retry'.st = "returned"
             /\ IsSome(retry'.res)]_vars

\* the third request was answered 403 and that response was returned
C32_Witness ==
    /\ retry.st = "returned"
    /\ retry.requests = 3
    /\ retry.sleeps = 2
    /\ IsSome(retry.res)
    /\ retry.res[1].status = 403

\* a Retry-After of 200 s is slept for 120 s
C32_WitnessCapped ==
    /\ retry.st = "sleeping"
    /\ retry.res[1].retryAfter = Some(<<"2", "0", "0">>)
    /\ retry.waitMs = Some(120000)

\* without Retry-After, a reset 4 s ahead is slept for 4 s
C32_WitnessReset ==
    /\ retry.st = "sleeping"
    /\ Absent(retry.res[1].retryAfter)
    /\ retry.res[1].reset = Some(<<"5">>)
    /\ retry.waitMs = Some(4000)

\* without either header the sleep is 60 s
C32_WitnessFlat ==
    /\ retry.st = "sleeping"
    /\ retry.res[1].retryAfter = None
    /\ retry.res[1].reset = None
    /\ retry.waitMs = Some(60000)

\* a 429 is returned at once
C32_WitnessNoRetry ==
    /\ retry.st = "returned"
    /\ retry.requests = 1
    /\ retry.res[1].status = 429

\* ---- a generation call that fails --------------------------------------

\* C33: when the request or the stream of a generation call raises, the run
\* rejects there and then: no report and no request follows, no assessment is
\* built, no call of the store is made, and the store is as it was when the
\* run began
C33_FailedGenerationRejects ==
    [][/\ Len(storeCalls') >= Len(storeCalls)
       /\ storeCalls' = <<>> => store' = store
       /\ failure' = "generation" =>
             /\ apc' = "rejected"
             /\ storeCalls' = <<>>
             /\ assessment' = None
             /\ Len(requests') = Len(requests)
             /\ Len(stages') = Len(stages)
             /\ OpenRequests' = {}]_vars

\* the stream of the question request of the first of two clusters raised
\* after a chunk, with an assessment of the user in the store
C33_Witness ==
    /\ failure = "generation"
    /\ Len(clusters) = 2
    /\ Len(requests) = 3
    /\ Len(RequestsOf(3)) = 1
    /\ Len(QuestionReports) > 1
    /\ Matches(store, userEmail) # <<>>

\* the clustering request raised
C33_WitnessStage1 ==
    /\ failure = "generation"
    /\ Len(requests) = 1
    /\ Len(stages) = 1

\* the mapping call raised
C33_WitnessStage2 ==
    /\ failure = "generation"
    /\ Len(requests) = 2
    /\ clusters # <<>>

\* C34: no run rejects because of what a model response holds: a run that
\* rejects does so because a generation call raised
C34_NoRejectOnContent ==
    apc = "rejected" => failure = "generation"

\* ---- the token of the setup wizard -------------------------------------

\* C35: past step 0 a token that is set is one for which testPat has
\* returned valid
C35_TokenPastStepZeroVerified ==
    wizard.open /\ wizard.currentStep > 0 /\ wizard.githubPat # NoToken =>
        wizard.githubPat \in wizard.valid

\* ---- the question sets of the assessment -------------------------------

\* C36: the questions of the assessment a run returns are one question set
\* for every cluster, in the order of the clusters: as many as there are
\* clusters, the i-th with the id of the i-th cluster as its clusterId
C36_OneQuestionSetPerCluster ==
    apc = "resolved" /\ IsSome(assessment) =>
        /\ Len(assessment[1].questions) = Len(assessment[1].clusters)
        /\ \A n \in 1..Len(assessment[1].clusters) :
              assessment[1].questions[n].clusterId = assessment[1].clusters[n].id

\* two clusters with different ids, the second without a mapping
C36_Witness ==
    /\ apc = "resolved"
    /\ IsSome(assessment)
    /\ Len(assessment[1].clusters) = 2
    /\ Len(assessment[1].questions) = 2
    /\ assessment[1].clusters[1].id # assessment[1].clusters[2].id
    /\ IsArray(assessment[1].mappings)
    /\ assessment[1].mappings.items # <<>>
    /\ ~IsSome(Find(assessment[1].mappings.items, assessment[1].clusters[2].id))

\* ---- the number of search requests -------------------------------------

\* max(1, ceil(T / 100)) for the total_count T taken from page 1 (0 until
\* page 1 has been received)
PageBound ==
    LET pages == (totalCount + PER_PAGE - 1) \div PER_PAGE
    IN  IF pages < 1 THEN 1 ELSE pages

\* the requests made for page p
RequestsFor(p) == {k \in 1..Len(fetches) : fetches[k] = p}

\* C37 as stated: a call makes at most max(1, ceil(T / 100)) requests to the
\* search endpoint
C37_AsStated == Len(fetches) <= PageBound

\* C37: a call requests at most the pages 1 .. max(1, ceil(T / 100)), each of
\* them once, or twice when the first answer was a rate limit that
\* fetchWithRateLimit waited for
C37_PagesBounded ==
    /\ PagesRequested \subseteq 1..PageBound
    /\ \A p \in PagesRequested : Cardinality(RequestsFor(p)) <= 2
    /\ Len(fetches) <= 2 * PageBound

\* three full pages for a total of 300, each requested once
C37_Witness ==
    /\ pc = "done"
    /\ totalCount = 300
    /\ fetches = <<1, 2, 3>>
    /\ Len(result[1]) = 300

\* a page requested twice
C37_WitnessRetry ==
    /\ pc = "done"
    /\ totalCount = 250
    /\ PagesRequested = {1, 2, 3}
    /\ Len(fetches) > 3

\* ---- the durable copy of the PR cache ----------------------------------

\* the detached writes of the storePRData calls for u
WritesFor(u) == {k \in 1..Len(durable) : durable[k].userEmail = u}

\* every detached write for u has found, and updated or created
AllWritten(u) ==
    /\ WritesFor(u) # {}
    /\ \A k \in WritesFor(u) : durable[k].st = "done"

\* the snapshot of a document of the collection 'pr_data'
SnapshotOfDoc(doc) ==
    [prs |-> doc.prs, fetchedAt |-> doc.fetchedAt, dateRange |-> doc.dateRange]

Wrote(k) ==
    /\ callers[k].st = "awaitWrite"
    /\ callers'[k].st = "returned"
    /\ callers'[k].wroteAt > 0

\* the documents of the users other than u are, at the same places, what
\* they were: none is created, changed or removed
OthersUnchanged(u) ==
    /\ \A at \in 1..Len(store) :
          store[at].doc.userEmail # u =>
              at <= Len(store') /\ store'[at] = store[at]
    /\ \A at \in 1..Len(store') :
          store'[at].doc.userEmail # u =>
              at <= Len(store) /\ store[at] = store'[at]

\* C39: the store changes only when the write of a saveAssessment call is
\* done, and then no document of a userEmail other than that call's is
\* created, changed or removed
C39_OtherUsersUnchanged ==
    [][/\ store' # store => \E k \in 1..Len(callers) : Wrote(k)
       /\ \A k \in 1..Len(callers) :
             Wrote(k) => OthersUnchanged(callers[k].userEmail)]_vars

\* a save for one user has updated that user's document while the store
\* holds a document of the other user
C39_Witness ==
    \E j, k \in 1..Len(callers) :
        /\ callers[j].op = "save" /\ callers[k].op = "save"
        /\ callers[j].userEmail # callers[k].userEmail
        /\ callers[j].wroteAt > 0
        /\ callers[k].wroteAt > callers[j].wroteAt
        /\ HasExisting(callers[k].existing)
        /\ \E at \in 1..Len(store) : store[at].doc = callers[j].doc[1]
        /\ \E at \in 1..Len(store) : store[at].doc = callers[k].doc[1]

\* a save for one user has created that user's document after the other
\* user's
C39_WitnessCreate ==
    \E j, k \in 1..Len(callers) :
        /\ callers[j].op = "save" /\ callers[k].op = "save"
        /\ callers[j].userEmail # callers[k].userEmail
        /\ callers[j].wroteAt > 0
        /\ callers[k].wroteAt > callers[j].wroteAt
        /\ ~HasExisting(callers[k].existing)
        /\ Len(store) = 2

====
